---- MODULE Spec2Model ----
(***************************************************************************)
(* Model of the nonlinear-expression compiler of the MATLAB/SCIP interface *)
(* (Source/scip/scipnlmex.cpp, addNonlinearCon, expression API of SCIP 8)  *)
(* and of the validation code of its caller (Source/scip/scipmex.cpp).     *)
(*                                                                         *)
(* One call of addNonlinearCon is a run of the model: Enter is the code    *)
(* before the builder loop, each loop iteration is one action chosen by    *)
(* the builder state, Validate is the evaluation of the root, Emit the     *)
(* creation of the constraint and Compare the caller's validation test.    *)
(* Numbers are exact rationals; the IEEE rounding of doubles is not        *)
(* modelled.                                                               *)
(***************************************************************************)
EXTENDS Integers, Sequences, FiniteSets, TLC

VARIABLES
    instr,      \* the caller's instruction array (0-based positions are i+1 here)
    no_instr,   \* number of instructions the builder loop runs over
    isObj,      \* is this the objective function
    pc,         \* position in the call: start, loop, validate, emit, compare, done, error
    err,        \* the fatal error raised (NoError while none)
    i,          \* loop index (0-based, as in the code)
    state,      \* state machine state
    args,       \* <<args[0], args[1]>>
    num,        \* last constant read
    varcnt,     \* which expression variable we are up to
    vari,       \* variable index when evaluating functions
    expno,      \* index within expression array we are up to
    savexp,     \* last deferred expression read in exp (op) exp
    savexplst,  \* saved expressions; psavexplst = Len(savexplst) - 1
    savvarlst,  \* saved variables;   psavvarlst = Len(savvarlst) - 1
    savprolst,  \* process list;      psavprolst = Len(savprolst) - 1
    no_var,     \* pre-scan: number of VAR occurrences
    no_ops,     \* pre-scan: number of operator occurrences
    varind,     \* variable index of every VAR occurrence
    exp,        \* expression array: index -> node (absent index = never created)
    xval,       \* validation point handed to the call (NoPoint = NULL)
    fval,       \* evaluation value returned by the call
    conss,      \* constraints handed to SCIP (SCIPaddCons), in order
    nprobvars,  \* number of variables of the SCIP problem
    conval,     \* caller: expected value of the constraint (nlcon_val / obj_val)
    warned,     \* caller: a validation warning was issued
    ts,         \* caller: test status
    lhs,        \* left hand side handed to the call
    rhs,        \* right hand side handed to the call
    given,      \* caller: the fields of the nonlinear structure that are present
    pending,    \* caller: the calls still to be made, in order
    addedvars,  \* variables added to the SCIP problem (SCIPaddVar), in order
    earlier,    \* outcomes of the calls made before on the same instr array
    xout        \* caller: what mexFunction has put into x (empty until it returns)

vars == <<instr, no_instr, isObj, pc, err, i, state, args, num, varcnt, vari,
          expno, savexp, savexplst, savvarlst, savprolst, no_var, no_ops,
          varind, exp, xval, fval, conss, nprobvars, conval, warned, ts,
          lhs, rhs, given, pending, addedvars, earlier, xout>>

\* what a call of addNonlinearCon is handed and leaves alone
callerIn == <<lhs, rhs, given, pending, earlier, xout>>

(***************************************************************************)
(* Enumerations (scipnlmex.cpp:60-61)                                      *)
(***************************************************************************)
EMPTY == -2
READ == -1
NUM == 0
VAR == 1
EXP == 2
MUL == 3
DIV == 4
ADD == 5
SUB == 6
SQUARE == 7
SQRT == 8
POW == 9
EXPNT == 10
LOG == 11
SIN == 12
COS == 13
TAN == 14
MIN == 15
MAX == 16
ABS == 17
SIGN == 18
OTHER_STATE == 98   \* OTHER in the code (a reserved word here)
EXIT == 99

BinaryOps == {MUL, DIV, ADD, SUB, POW}
UnaryOps == {SQUARE, SQRT, EXPNT, LOG, ABS, SIN, COS}
UnsupportedOps == {MIN, MAX, TAN, SIGN}

(***************************************************************************)
(* Bounds of the model                                                     *)
(***************************************************************************)
MAX_DEPTH == 2      \* capacity of the pending lists (512 in the code), scaled down
MaxPairs == 3       \* general streams: at most this many (opcode, slot) pairs
MaxNodes == 5       \* well-formed streams: at most this many (opcode, slot) pairs
MaxDeep == 7        \* deep streams: at most this many (opcode, slot) pairs
ndec == 2           \* number of decision variables of the problem
Cap == 30000        \* largest numerator and denominator the rationals carry
MaxExp == 30        \* largest integer exponent that is evaluated exactly

(***************************************************************************)
(* Exact rational numbers standing for the doubles of the code             *)
(***************************************************************************)
RECURSIVE GCD(_, _)
GCD(a, b) == IF b = 0 THEN a ELSE GCD(b, a % b)

IAbs(a) == IF a < 0 THEN -a ELSE a

Q(n) == [k |-> "q", n |-> n, d |-> 1]
Invalid == [k |-> "invalid", n |-> 0, d |-> 1]   \* SCIP_INVALID: evaluation error
\* a value the model does not represent exactly: an irrational number, or a
\* rational whose numerator or denominator is beyond Cap
Irr == [k |-> "irr", n |-> 0, d |-> 1]

Frac(n, d) ==
    IF d = 0 THEN Invalid
    ELSE LET g == GCD(IAbs(n), IAbs(d))
             s == IF d < 0 THEN -1 ELSE 1
             rn == (s * n) \div g
             rd == (s * d) \div g
         IN  IF IAbs(rn) > Cap \/ rd > Cap THEN Irr
             ELSE [k |-> "q", n |-> rn, d |-> rd]

IsQ(a) == a.k = "q"

\* combine the kinds of two operands of an arithmetic operation
Lift2(a, b, r) ==
    IF a.k = "invalid" \/ b.k = "invalid" THEN Invalid
    ELSE IF a.k = "irr" \/ b.k = "irr" THEN Irr
    ELSE r

QAdd(a, b) == Lift2(a, b, Frac(a.n * b.d + b.n * a.d, a.d * b.d))
QMul(a, b) == Lift2(a, b, Frac(a.n * b.n, a.d * b.d))
QNeg(a) == IF IsQ(a) THEN Frac(-a.n, a.d) ELSE a
QSub(a, b) == QAdd(a, QNeg(b))
QInv(a) == IF IsQ(a) THEN Frac(a.d, a.n) ELSE a
QDiv(a, b) ==
    IF IsQ(b) /\ b.n = 0 THEN Invalid
    ELSE Lift2(a, b, Frac(a.n * b.d, a.d * b.n))
QAbs(a) == IF IsQ(a) THEN Frac(IAbs(a.n), a.d) ELSE a
\* a < b for non-negative rationals, by continued fractions (no products)
RECURSIVE QLess(_, _)
QLess(a, b) ==
    LET ia == a.n \div a.d
        ib == b.n \div b.d
        ra == a.n % a.d
        rb == b.n % b.d
    IN  IF ia # ib THEN ia < ib
        ELSE IF rb = 0 THEN FALSE
        ELSE IF ra = 0 THEN TRUE
        ELSE QLess([k |-> "q", n |-> b.d, d |-> rb], [k |-> "q", n |-> a.d, d |-> ra])

\* b^e, or some number beyond Cap when b^e is beyond Cap
RECURSIVE IPow(_, _)
IPow(b, e) ==
    IF e = 0 THEN 1
    ELSE LET p == IPow(b, e - 1)
         IN  IF IAbs(p) > Cap THEN p ELSE b * p

\* integer square root when n is a perfect square, else -1
RECURSIVE ISqrtFrom(_, _)
ISqrtFrom(n, r) ==
    IF r * r > n THEN -1 ELSE IF r * r = n THEN r ELSE ISqrtFrom(n, r + 1)
ISqrt(n) == ISqrtFrom(n, 0)

\* pow(base, e) for the exponents the builder creates: integers and 1/2
QPow(a, e) ==
    IF ~IsQ(a) THEN a
    ELSE IF e.d = 1 THEN
            IF IAbs(e.n) > MaxExp THEN Irr
            ELSE IF e.n >= 0 THEN Frac(IPow(a.n, e.n), IPow(a.d, e.n))
            ELSE IF a.n = 0 THEN Invalid
            ELSE Frac(IPow(a.d, -e.n), IPow(a.n, -e.n))
    ELSE IF e.n = 1 /\ e.d = 2 THEN
            IF a.n < 0 THEN Invalid
            ELSE IF ISqrt(a.n) >= 0 /\ ISqrt(a.d) >= 0 THEN Frac(ISqrt(a.n), ISqrt(a.d))
            ELSE Irr
    ELSE Irr

\* the elementary functions, exact where the value is rational
QFun(op, a) ==
    IF ~IsQ(a) THEN a
    ELSE IF op = ABS THEN QAbs(a)
    ELSE IF op = SQRT THEN QPow(a, Frac(1, 2))
    ELSE IF op = SQUARE THEN QMul(a, a)
    ELSE IF op = EXPNT THEN (IF a.n = 0 THEN Q(1) ELSE Irr)
    ELSE IF op = LOG THEN (IF a.n <= 0 THEN Invalid ELSE IF a.n = a.d THEN Q(0) ELSE Irr)
    ELSE IF op = SIN THEN (IF a.n = 0 THEN Q(0) ELSE Irr)
    ELSE IF op = COS THEN (IF a.n = 0 THEN Q(1) ELSE Irr)
    ELSE Invalid

(***************************************************************************)
(* Expression nodes.  A child is a reference to a variable expression     *)
(* expvars[j] or to an earlier entry exp[j]; inv marks the intermediate    *)
(* pow(child, -1) the code wraps around a divisor.                         *)
(***************************************************************************)
VarRef(j) == [t |-> "var", j |-> j, inv |-> FALSE]
ExpRef(j) == [t |-> "exp", j |-> j, inv |-> FALSE]
InvOf(c) == [c EXCEPT !.inv = TRUE]

\* SCIPcreateExprValue
ExprValue(v) == [kind |-> "value", ch |-> <<>>, cf |-> <<>>, c |-> v, op |-> NUM]
\* SCIPcreateExprSum(children, coefficients, constant)
ExprSum(ch, cf, c) == [kind |-> "sum", ch |-> ch, cf |-> cf, c |-> c, op |-> ADD]
\* SCIPcreateExprProduct(children, coefficient)
ExprProduct(ch, c) == [kind |-> "prod", ch |-> ch, cf |-> <<>>, c |-> c, op |-> MUL]
\* SCIPcreateExprPow(child, exponent)
ExprPow(ch, e) == [kind |-> "pow", ch |-> <<ch>>, cf |-> <<>>, c |-> e, op |-> POW]
\* SCIPcreateExprExp / Log / Abs / Sin / Cos
ExprFun(op, ch) == [kind |-> "fn", ch |-> <<ch>>, cf |-> <<>>, c |-> Q(0), op |-> op]

Undef == [k |-> "undef", n |-> 0, d |-> 1]   \* value of an entry that was never created

PropUndef(a, b, r) == IF a.k = "undef" \/ b.k = "undef" THEN Undef ELSE r

\* SCIPevalExpr: value of exp[j] of arena ar at point pt; vi is varind
RECURSIVE EvalExp(_, _, _, _)
EvalChild(c, ar, pt, vi) ==
    LET v == IF c.t = "var"
             THEN (IF c.j + 1 \in DOMAIN vi /\ vi[c.j + 1] + 1 \in DOMAIN pt
                   THEN Q(pt[vi[c.j + 1] + 1]) ELSE Undef)
             ELSE EvalExp(c.j, ar, pt, vi)
    IN  IF c.inv /\ v.k # "undef" THEN QPow(v, Q(-1)) ELSE v

EvalExp(j, ar, pt, vi) ==
    IF j \notin DOMAIN ar THEN Undef
    ELSE LET nd == ar[j]
             c1 == EvalChild(nd.ch[1], ar, pt, vi)
             c2 == EvalChild(nd.ch[2], ar, pt, vi)
         IN  CASE nd.kind = "value" -> nd.c
               [] nd.kind = "sum" ->
                    IF Len(nd.ch) = 1
                    THEN PropUndef(c1, c1, QAdd(QMul(nd.cf[1], c1), nd.c))
                    ELSE PropUndef(c1, c2,
                           QAdd(QAdd(QMul(nd.cf[1], c1), QMul(nd.cf[2], c2)), nd.c))
               [] nd.kind = "prod" -> PropUndef(c1, c2, QMul(nd.c, QMul(c1, c2)))
               [] nd.kind = "pow" -> PropUndef(c1, c1, QPow(c1, nd.c))
               [] nd.kind = "fn" -> PropUndef(c1, c1, QFun(nd.op, c1))

(***************************************************************************)
(* Instruction streams                                                     *)
(***************************************************************************)
At(s, k) == s[k + 1]     \* instr[k] of the code

\* the expression a stream denotes: postfix evaluation over (opcode, slot)
\* pairs.  The result is the operand stack, <<>> standing for "denotes nothing".
ApplyBin(op, a, b) ==
    CASE op = ADD -> QAdd(a, b)
      [] op = SUB -> QSub(a, b)
      [] op = MUL -> QMul(a, b)
      [] op = DIV -> QDiv(a, b)
      [] op = POW -> IF IsQ(b) THEN QPow(a, b) ELSE b

RECURSIVE Postfix(_, _, _, _)
Postfix(s, k, stk, pt) ==
    IF k >= Len(s) THEN stk
    ELSE IF k + 1 >= Len(s) THEN <<>>
    ELSE LET op == At(s, k)
             a == At(s, k + 1)
             n == Len(stk)
         IN  IF op = NUM THEN Postfix(s, k + 2, Append(stk, Q(a)), pt)
             ELSE IF op = VAR THEN
                IF a + 1 \in DOMAIN pt THEN Postfix(s, k + 2, Append(stk, Q(pt[a + 1])), pt)
                ELSE <<>>
             ELSE IF op \in BinaryOps THEN
                IF n < 2 THEN <<>>
                ELSE Postfix(s, k + 2,
                       Append(SubSeq(stk, 1, n - 2), ApplyBin(op, stk[n - 1], stk[n])), pt)
             ELSE IF op \in UnaryOps THEN
                IF n < 1 THEN <<>>
                ELSE Postfix(s, k + 2, Append(SubSeq(stk, 1, n - 1), QFun(op, stk[n])), pt)
             ELSE <<>>

\* the number of operands on the postfix stack after the pairs from k on,
\* starting with n operands; -1 when the stream is not valid postfix
RECURSIVE PostfixDepth(_, _, _)
PostfixDepth(s, k, n) ==
    IF k >= Len(s) THEN n
    ELSE IF k + 1 >= Len(s) THEN -1
    ELSE LET op == At(s, k)
         IN  IF op = NUM THEN PostfixDepth(s, k + 2, n + 1)
             ELSE IF op = VAR THEN
                IF At(s, k + 1) \in 0..(ndec - 1) THEN PostfixDepth(s, k + 2, n + 1) ELSE -1
             ELSE IF op \in BinaryOps THEN
                IF n < 2 THEN -1 ELSE PostfixDepth(s, k + 2, n - 1)
             ELSE IF op \in UnaryOps THEN
                IF n < 1 THEN -1 ELSE PostfixDepth(s, k + 2, n)
             ELSE -1

\* a stream is well formed when it denotes exactly one expression
WellFormed(s) == PostfixDepth(s, 0, 0) = 1
Denoted(s, pt) == Postfix(s, 0, <<>>, pt)[1]

\* The format of the design document: only NUM and VAR are followed by a
\* slot, an operator is a single element.  Same results as above: the operand
\* stack, and the number of operands (-1 when the stream is not valid).
RECURSIVE PostfixTokens(_, _, _, _)
PostfixTokens(s, k, stk, pt) ==
    IF k >= Len(s) THEN stk
    ELSE LET op == At(s, k)
             n == Len(stk)
         IN  IF op \in {NUM, VAR} THEN
                IF k + 1 >= Len(s) THEN <<>>
                ELSE IF op = NUM THEN PostfixTokens(s, k + 2, Append(stk, Q(At(s, k + 1))), pt)
                ELSE IF At(s, k + 1) + 1 \in DOMAIN pt
                     THEN PostfixTokens(s, k + 2, Append(stk, Q(pt[At(s, k + 1) + 1])), pt)
                     ELSE <<>>
             ELSE IF op \in BinaryOps THEN
                IF n < 2 THEN <<>>
                ELSE PostfixTokens(s, k + 1,
                       Append(SubSeq(stk, 1, n - 2), ApplyBin(op, stk[n - 1], stk[n])), pt)
             ELSE IF op \in UnaryOps THEN
                IF n < 1 THEN <<>>
                ELSE PostfixTokens(s, k + 1, Append(SubSeq(stk, 1, n - 1), QFun(op, stk[n])), pt)
             ELSE <<>>

RECURSIVE TokensDepth(_, _, _)
TokensDepth(s, k, n) ==
    IF k >= Len(s) THEN n
    ELSE LET op == At(s, k)
         IN  IF op \in {NUM, VAR} THEN
                IF k + 1 >= Len(s) THEN -1
                ELSE IF op = VAR /\ At(s, k + 1) \notin 0..(ndec - 1) THEN -1
                ELSE TokensDepth(s, k + 2, n + 1)
             ELSE IF op \in BinaryOps THEN
                IF n < 2 THEN -1 ELSE TokensDepth(s, k + 1, n - 1)
             ELSE IF op \in UnaryOps THEN
                IF n < 1 THEN -1 ELSE TokensDepth(s, k + 1, n)
             ELSE -1

WellFormedTokens(s) == TokensDepth(s, 0, 0) = 1
DenotedTokens(s, pt) == PostfixTokens(s, 0, <<>>, pt)[1]

(***************************************************************************)
(* Fatal errors (mexErrMsgTxt) and their kinds                             *)
(***************************************************************************)
NoError == "none"
MsgDepthExp == "Maximum function depth exceeded [expression list]."
MsgDepthVar == "Maximum function depth exceeded [variable list]."
MsgOrder == "Error in order of instructions."
MsgNoVarToProcess == "Process List indicates variable to process, but not present in variable list."
MsgEmptyVar == "Error processing waiting variable, found empty or negative index."
MsgNoExpToProcess == "Process List indicates expression to process, but not present in expression list."
MsgUnknownProcess == "Unknown entry in process list."
MsgTwoOperands == "operator doesn't have two operands."
MsgPower == "You cannot use POWER with the exponent as a variable. For x^y use exp(y*log(x))."
MsgNotImplemented == "Operator not implemented yet"
MsgDivConst == "Division by constant 0."
MsgEmptyExp == "Error processing waiting expression, found empty index."
MsgCombine == "Unexpected operator for combining expressions, currently only +, -, * and / supported"
MsgGrouping == "Grouping of arguments not implemented yet."
MsgNoOperand == "function doesn't have an operand."
MsgNegVar == "Variable index is negative when creating fcn(var)."
MsgUnknownArg == "Unknown argument to operate function on, only options are VAR (variable) or EXP (expression)."
MsgMinMax == "Max and Min not currently implemented (in this interface and SCIP)."
MsgTan == "Tangent function not currently implemented (in SCIP)."
MsgSign == "Sign not currently implemented (in SCIP)."
MsgUnknownInstr == "Unknown (or out of order) instruction."
MsgCrash == "undefined behaviour: use of an expression that was never created"
MsgAssert == "Assertion failed: 0 <= varind[i] && varind[i] < nvars"

\* What the text of a fatal error tells about its place.  Every message is a
\* string literal handed to mexErrMsgTxt: none is formatted with nlno or
\* with the position i (nlno is used for the name of the constraint only,
\* scipnlmex.cpp:844-846); a few name the one operator they are raised for.
MsgCarries(m) ==
    IF m \in {MsgPower, MsgTan, MsgSign} THEN {"operator"} ELSE {}

\* the error kinds of the design's taxonomy
MalformedMsgs == {MsgOrder, MsgTwoOperands, MsgGrouping, MsgNoOperand}
DepthMsgs == {MsgDepthExp, MsgDepthVar}
UnsupportedMsgs == {MsgMinMax, MsgTan, MsgSign}

(***************************************************************************)
(* Pre-scan (scipnlmex.cpp:123-170): positions 0, 2, 4, ... are read as    *)
(* opcodes, every other position is skipped as an argument.                *)
(***************************************************************************)
OpPositions(s) == {k \in 0..(Len(s) - 1) : k % 2 = 0}
CountOps(s) == Cardinality({k \in OpPositions(s) : At(s, k) > EXP})
CountVar(s) == Cardinality({k \in OpPositions(s) : At(s, k) = VAR})

\* varind: the slot after the j-th VAR opcode; calloc leaves 0 where the
\* stream ends before the slot
VarPositions(s) == {k \in OpPositions(s) : At(s, k) = VAR}
RECURSIVE SortedSeq(_)
SortedSeq(S) ==
    IF S = {} THEN <<>>
    ELSE LET m == CHOOSE x \in S : \A y \in S : x <= y
         IN  <<m>> \o SortedSeq(S \ {m})
\* faulty variant, for sensitivity analysis: every occurrence is given the first variable
VarIndAllFirst(s) == [j \in 1..Cardinality(VarPositions(s)) |-> 0]

VarInd(s) ==
    LET ps == SortedSeq(VarPositions(s))
    IN  [j \in 1..Len(ps) |-> IF ps[j] + 1 < Len(s) THEN At(s, ps[j] + 1) ELSE 0]

MaxOf(a, b) == IF a > b THEN a ELSE b

(***************************************************************************)
(* Inputs of a call                                                        *)
(***************************************************************************)
NumVals == {0, 3}                 \* constants carried by NUM slots
VarIdx == {0, ndec - 1}           \* variable slots: the first and the last variable
\* validation points: (2,3,..), (3,4,..), (0,1,..), (1,0,..,0)
Points == {[v \in 1..ndec |-> v + 1], [v \in 1..ndec |-> v + 2],
           [v \in 1..ndec |-> v - 1], [v \in 1..ndec |-> IF v = 1 THEN 1 ELSE 0]}
NoPoint == <<>>                   \* xval == NULL
GarbageVals == {Q(0), Q(-7)}      \* values an uninitialised read may produce
feastol == [k |-> "q", n |-> 1, d |-> 1000000]   \* SCIP's feasibility tolerance

\* the fields of the nonlinear structure that the validation uses
\* (scipmex.cpp:1281-1298)
Fields == {"xval", "nlcon_val", "obj_val"}
\* xval is fetched only inside the tests for nlcon_val and for obj_val
XvalPassed == "xval" \in given /\ ("nlcon_val" \in given \/ "obj_val" \in given)
\* the array the caller compares the value of this call with
\* (conval at scipmex.cpp:1335 and 1360, objval at 1388)
Wanted == IF isObj THEN "obj_val" ELSE "nlcon_val"

\* the variable standing for the nonlinear part of the objective
\* (scipnlmex.cpp:198)
nlobj == [name |-> "nlobj", lb |-> "-SCIPinfinity", ub |-> "SCIPinfinity",
          obj |-> 1, vartype |-> "SCIP_VARTYPE_CONTINUOUS"]

\* bounds of a constraint; the objective is handed 0 and 0 (scipmex.cpp:1384)
ConBounds == {<<-5, 4>>, <<4, 4>>}
ObjBounds == <<0, 0>>

\* (opcode, slot) pairs of the general streams.  The core pairs may stand
\* anywhere in a stream; every other opcode is tried as the last pair.
JunkOps == {READ, EXP, EXIT}
CorePairs ==
       {<<NUM, c>> : c \in NumVals}
  \cup {<<VAR, v>> : v \in VarIdx}
  \cup {<<o, 0>> : o \in BinaryOps \cup {SQUARE, SQRT, ABS, TAN, READ, EXIT}}
  \cup {<<o, 1>> : o \in {SUB, DIV}}
LastPairs ==
    {<<o, 0>> : o \in UnaryOps \cup UnsupportedOps \cup JunkOps} \ CorePairs
TrailTokens == {NUM, VAR, ADD, MUL, DIV, POW, SIN, TAN}

\* the stream made of the pairs f[1], ..., f[n]
RECURSIVE Flat(_, _)
Flat(f, n) == IF n = 0 THEN <<>> ELSE Flat(f, n - 1) \o f[n]

\* a few longer streams: an unsupported opcode met with operands waiting
DeepSamples == {<<VAR, 0, VAR, 1, VAR, 0, TAN, 0>>,
                <<VAR, 0, SIN, 0, VAR, 1, VAR, 0, MIN, 0>>}

\* every stream of at most 2 * MaxPairs elements made of core pairs, ended or
\* not by one of the other pairs or by one more opcode that has no slot after
\* it; and the longer samples
GeneralStream(s) ==
    \/ \E n \in 0..MaxPairs : \E f \in [1..n -> CorePairs] :
          \/ s = Flat(f, n)
          \/ n < MaxPairs /\ \E a \in LastPairs : s = Flat(f, n) \o a
          \/ n < MaxPairs /\ \E t \in TrailTokens : s = Flat(f, n) \o <<t>>
    \/ s \in DeepSamples

\* well-formed postfix streams with exactly n (opcode, slot) pairs
WFLeaves == {<<NUM, c>> : c \in NumVals} \cup {<<VAR, v>> : v \in VarIdx}
WFUnary == {ABS, SQRT}
RECURSIVE WFExprs(_)
WFExprs(n) ==
    IF n = 1 THEN WFLeaves
    ELSE {e \o <<u, 0>> : e \in WFExprs(n - 1), u \in WFUnary}
         \cup UNION {{a \o b \o <<o, 0>> : a \in WFExprs(m), b \in WFExprs(n - 1 - m), o \in BinaryOps}
                     : m \in 1..(n - 2)}
\* a few streams that are not well formed, so that every step kind occurs,
\* and the two sample streams of the design document
OddStreams == {<<TAN, 0>>, <<EXP, 0>>, <<VAR, 0, EXIT, 0, VAR, 1>>, <<NUM, 3, SIN, 0>>, <<VAR>>,
               <<VAR, 0, NUM, 3, ADD>>, <<VAR, 0, VAR, 1, MUL>>}
WFStreams == UNION {WFExprs(n) : n \in 1..MaxNodes} \cup OddStreams

EmptyArena == [x \in {} |-> ExprValue(Q(0))]

InitRest ==
    /\ no_instr = Len(instr)
    /\ isObj \in BOOLEAN
    /\ pc = "start"
    /\ err = NoError
    /\ i = 0
    /\ state = READ
    /\ args = <<EMPTY, EMPTY>>
    /\ num = Q(0)
    /\ varcnt = -1
    /\ vari = -1
    /\ expno = 0
    /\ savexp = 0
    /\ savexplst = <<>>
    /\ savvarlst = <<>>
    /\ savprolst = <<>>
    /\ no_var = 0
    /\ no_ops = 0
    /\ varind = <<>>
    /\ exp = EmptyArena
    /\ xval = NoPoint
    /\ fval = Q(0)
    /\ conss = <<>>
    /\ nprobvars = ndec
    /\ conval = Q(0)
    /\ warned = FALSE
    /\ ts = 1
    /\ addedvars = <<>>
    /\ earlier = <<>>
    /\ xout = <<>>
    /\ LET b == IF isObj THEN ObjBounds ELSE <<-5, 4>>
       IN  lhs = b[1] /\ rhs = b[2]
    /\ given \in {{}, Fields}
    /\ pending = <<>>

\* deep streams: up to MaxDeep pairs over a variable, a constant, one two
\* operand operator and one function, long enough to fill the pending lists
DeepPairs == {<<VAR, 0>>, <<NUM, 3>>, <<SUB, 0>>, <<ABS, 0>>}
\* the left-nested expression (((x0 op x0) op x0) ... ) with d operators
RECURSIVE LeftNested(_, _)
LeftNested(op, d) ==
    IF d = 0 THEN <<VAR, 0>> ELSE LeftNested(op, d - 1) \o <<VAR, 0, op, 0>>
LeftNestedOps == {ADD, SUB, MUL, DIV}
MaxLeft == MAX_DEPTH + 2     \* deepest left nesting tried
IsLeftNested(s) == \E op \in LeftNestedOps : \E d \in 1..MaxLeft : s = LeftNested(op, d)
NestingDepth(s) == (Len(s) - 2) \div 4

\* abs(x0) - (x0 - (x0 - x0)) with all operands first: an expression and a
\* variable wait together
MixedSample == <<VAR, 0, ABS, 0, VAR, 0, VAR, 0, VAR, 0, SUB, 0, SUB, 0, SUB, 0>>

\* f(x0) o1 (g(x1) o2 h(x0)) with the three functions first: two
\* expressions wait at once
NestedSamples ==
    {<<VAR, 0, ABS, 0, VAR, 1, ABS, 0, VAR, 0, SQRT, 0, o2, 0, o1, 0>> :
        o1 \in LeftNestedOps, o2 \in LeftNestedOps}

DeepStream(s) ==
    \/ \E n \in 0..MaxDeep : \E f \in [1..n -> DeepPairs] : s = Flat(f, n)
    \/ IsLeftNested(s)
    \/ s \in OddStreams \cup {MixedSample} \cup NestedSamples

Init == GeneralStream(instr) /\ InitRest
InitWF == instr \in WFStreams /\ InitRest
InitDeep == DeepStream(instr) /\ InitRest

\* faulty variant, for sensitivity analysis: no short cut for a constant-only stream
EnterNoConstantShortCut ==
    /\ pc = "start"
    /\ no_ops' = CountOps(instr)
    /\ no_var' = CountVar(instr)
    /\ varind' = VarInd(instr)
    /\ nprobvars' = IF isObj THEN nprobvars + 1 ELSE nprobvars
    /\ addedvars' = IF isObj THEN Append(addedvars, nlobj) ELSE addedvars
    /\ IF no_instr = 2 /\ At(instr, 0) = VAR
       THEN /\ exp' = (0 :> ExprSum(<<VarRef(0)>>, <<Q(1)>>, Q(0)))
            /\ no_instr' = 0
       ELSE UNCHANGED <<exp, no_instr>>
    /\ state' = READ
    /\ i' = 0
    /\ pc' = "loop"
    /\ UNCHANGED <<instr, isObj, err, args, num, varcnt, vari, expno, savexp,
                   savexplst, savvarlst, savprolst, xval, fval, conss, conval,
                   warned, ts>>
    /\ UNCHANGED callerIn

(***************************************************************************)
(* addNonlinearCon up to the builder loop (scipnlmex.cpp:111-223)          *)
(***************************************************************************)
\* The variable leaves are made from vars[varind[i]] (scipnlmex.cpp:188-193).
\* vars has ndec entries (scipmex.cpp:907); the only test of the index is an
\* assert against nvars = SCIPgetNVars (111, 191), which a build with NDEBUG
\* leaves out.  An index outside vars is therefore: refused by the assert
\* where the build has it and the index is outside 0..nvars-1 (the process
\* is aborted), or read, which is undefined: the call crashes or goes on
\* with whatever handle it found.
ReadsOutsideVars(s) == \E j \in DOMAIN VarInd(s) : VarInd(s)[j] \notin 0..(ndec - 1)
FailsAssert(s, nv) == \E j \in DOMAIN VarInd(s) : VarInd(s)[j] \notin 0..(nv - 1)
EntryOutcomes(s, nv) ==
    IF ~ReadsOutsideVars(s) THEN {"go"}
    ELSE (IF FailsAssert(s, nv) THEN {"abort"} ELSE {}) \cup {"crash", "go"}

Enter ==
    /\ pc = "start"
    /\ no_ops' = CountOps(instr)
    /\ no_var' = CountVar(instr)
    /\ varind' = VarInd(instr)
    /\ \E o \in EntryOutcomes(instr, nprobvars) :
         IF o = "go"
         THEN /\ nprobvars' = IF isObj THEN nprobvars + 1 ELSE nprobvars
              /\ addedvars' = IF isObj THEN Append(addedvars, nlobj) ELSE addedvars
              /\ IF no_instr = 2 /\ At(instr, 0) = NUM
                 THEN /\ exp' = (0 :> ExprValue(Q(At(instr, 1))))
                      /\ no_instr' = 0
                 ELSE IF no_instr = 2 /\ At(instr, 0) = VAR
                 THEN /\ exp' = (0 :> ExprSum(<<VarRef(0)>>, <<Q(1)>>, Q(0)))
                      /\ no_instr' = 0
                 ELSE UNCHANGED <<exp, no_instr>>
              /\ pc' = "loop"
              /\ err' = err
         ELSE /\ pc' = "error"
              /\ err' = IF o = "abort" THEN MsgAssert ELSE MsgCrash
              /\ UNCHANGED <<nprobvars, addedvars, exp, no_instr>>
    /\ state' = READ
    /\ i' = 0
    /\ UNCHANGED <<instr, isObj, args, num, varcnt, vari, expno, savexp,
                   savexplst, savvarlst, savprolst, xval, fval, conss, conval,
                   warned, ts>>
    /\ UNCHANGED callerIn

InLoop == pc = "loop" /\ i < no_instr

\* faulty variant, for sensitivity analysis: the tree built so far is handed to SCIP before
\* the call is aborted
FailAfterEmit(m) ==
    /\ pc' = "error"
    /\ err' = m
    /\ conss' = Append(conss, [root |-> expno, created |-> expno \in DOMAIN exp,
                               obj |-> isObj, lhs |-> lhs, rhs |-> rhs,
                               lin |-> <<>>, src |-> instr, tree |-> exp,
                               val |-> fval])
    /\ UNCHANGED <<instr, no_instr, isObj, i, state, args, num, varcnt, vari,
                   expno, savexp, savexplst, savvarlst, savprolst, no_var,
                   no_ops, varind, exp, xval, fval, nprobvars, conval,
                   warned, ts>>

\* mexErrMsgTxt: the call is aborted
Fail(m) ==
    /\ pc' = "error"
    /\ err' = m
    /\ UNCHANGED <<instr, no_instr, isObj, i, state, args, num, varcnt, vari,
                   expno, savexp, savexplst, savvarlst, savprolst, no_var,
                   no_ops, varind, exp, xval, fval, conss, nprobvars, conval,
                   warned, ts>>

\* case READ (scipnlmex.cpp:232-234)
ReadStep ==
    /\ InLoop
    /\ state = READ
    /\ state' = At(instr, i)
    /\ i' = i + 1
    /\ UNCHANGED <<instr, no_instr, isObj, pc, err, args, num, varcnt, vari,
                   expno, savexp, savexplst, savvarlst, savprolst, no_var,
                   no_ops, varind, exp, xval, fval, conss, nprobvars, conval,
                   warned, ts>>
    /\ UNCHANGED <<callerIn, addedvars>>

\* lst[++p] = v writes outside an array of cap entries (int lst[cap]).  The
\* write is undefined: the call crashes, or the entry is stored next to the
\* array and the call goes on.
Overrun(lst, cap) == Len(lst) >= cap

\* the shift of a new operand of kind k into full registers, shared by the
\* NUM and VAR cases: what is pushed and the error of the push, if any
\* (scipnlmex.cpp:243-274, 284-317)
Shift(k, savedvar) ==
    IF args[1] = EXP THEN
        IF Len(savexplst) - 1 >= MAX_DEPTH THEN [e |-> MsgDepthExp]
        ELSE [e |-> NoError,
              xl |-> Append(savexplst, expno - 1), vl |-> savvarlst,
              pl |-> Append(savprolst, EXP), a |-> <<args[2], k>>,
              oob |-> Overrun(savexplst, MAX_DEPTH) \/ Overrun(savprolst, 2 * MAX_DEPTH)]
    ELSE IF args[1] = VAR THEN
        IF Len(savvarlst) - 1 >= MAX_DEPTH THEN [e |-> MsgDepthVar]
        ELSE [e |-> NoError,
              xl |-> savexplst, vl |-> Append(savvarlst, savedvar),
              pl |-> Append(savprolst, VAR), a |-> <<args[2], k>>,
              oob |-> Overrun(savvarlst, MAX_DEPTH) \/ Overrun(savprolst, 2 * MAX_DEPTH)]
    ELSE [e |-> MsgOrder]

\* case NUM (scipnlmex.cpp:236-275)
NumStep ==
    /\ InLoop
    /\ state = NUM
    /\ IF args[1] = EMPTY \/ args[2] = EMPTY
       THEN /\ args' = IF args[1] = EMPTY THEN <<NUM, args[2]>> ELSE <<args[1], NUM>>
            /\ num' = Q(At(instr, i))
            /\ state' = READ
            /\ i' = i + 1
            /\ UNCHANGED <<savexplst, savvarlst, savprolst, pc, err>>
       ELSE LET r == Shift(NUM, varcnt - 1)
            IN  IF r.e # NoError
                THEN /\ pc' = "error"
                     /\ err' = r.e
                     /\ UNCHANGED <<args, num, state, i, savexplst, savvarlst, savprolst>>
                ELSE \/ /\ args' = r.a
                        /\ savexplst' = r.xl
                        /\ savvarlst' = r.vl
                        /\ savprolst' = r.pl
                        /\ num' = Q(At(instr, i))
                        /\ state' = READ
                        /\ i' = i + 1
                        /\ UNCHANGED <<pc, err>>
                     \/ /\ r.oob
                        /\ pc' = "error"
                        /\ err' = MsgCrash
                        /\ UNCHANGED <<args, num, state, i, savexplst, savvarlst, savprolst>>
    /\ UNCHANGED <<instr, no_instr, isObj, varcnt, vari, expno, savexp, no_var,
                   no_ops, varind, exp, xval, fval, conss, nprobvars, conval,
                   warned, ts>>
    /\ UNCHANGED <<callerIn, addedvars>>

\* case VAR (scipnlmex.cpp:277-318)
VarStep ==
    /\ InLoop
    /\ state = VAR
    /\ IF args[1] = EMPTY \/ args[2] = EMPTY
       THEN /\ args' = IF args[1] = EMPTY THEN <<VAR, args[2]>> ELSE <<args[1], VAR>>
            /\ varcnt' = varcnt + 1
            /\ state' = READ
            /\ i' = i + 1
            /\ UNCHANGED <<savexplst, savvarlst, savprolst, pc, err>>
       ELSE LET saved == IF args[1] = VAR /\ At(instr, i - 3) = VAR /\ At(instr, i - 5) = VAR
                         THEN (varcnt + 1) - 2 ELSE (varcnt + 1) - 1
                r == Shift(VAR, saved)
            IN  IF r.e # NoError
                THEN /\ pc' = "error"
                     /\ err' = r.e
                     /\ UNCHANGED <<args, varcnt, state, i, savexplst, savvarlst, savprolst>>
                ELSE \/ /\ args' = r.a
                        /\ savexplst' = r.xl
                        /\ savvarlst' = r.vl
                        /\ savprolst' = r.pl
                        /\ varcnt' = varcnt + 1
                        /\ state' = READ
                        /\ i' = i + 1
                        /\ UNCHANGED <<pc, err>>
                     \/ /\ r.oob
                        /\ pc' = "error"
                        /\ err' = MsgCrash
                        /\ UNCHANGED <<args, varcnt, state, i, savexplst, savvarlst, savprolst>>
    /\ UNCHANGED <<instr, no_instr, isObj, num, vari, expno, savexp, no_var,
                   no_ops, varind, exp, xval, fval, conss, nprobvars, conval,
                   warned, ts>>
    /\ UNCHANGED <<callerIn, addedvars>>

(***************************************************************************)
(* Two operand operators (scipnlmex.cpp:321-667)                           *)
(***************************************************************************)
\* faulty variant, for sensitivity analysis: the waiting variable is read but stays in its list
PopWaitingKeepsVar ==
    LET base == [e |-> NoError, a |-> args, v |-> varcnt, vl |-> savvarlst,
                 pl |-> savprolst, ins |-> instr]
    IN  IF args[2] = EMPTY /\ Len(savprolst) - 1 >= 0
        THEN LET toProcess == savprolst[Len(savprolst)]
                 pl1 == SubSeq(savprolst, 1, Len(savprolst) - 1)
             IN  IF toProcess = VAR THEN
                     IF Len(savvarlst) - 1 < 0 THEN [base EXCEPT !.e = MsgNoVarToProcess]
                     ELSE IF savvarlst[Len(savvarlst)] < 0 THEN [base EXCEPT !.e = MsgEmptyVar]
                     ELSE [e |-> NoError, a |-> <<args[1], VAR>>,
                           v |-> savvarlst[Len(savvarlst)],
                           vl |-> savvarlst,
                           pl |-> pl1, ins |-> [instr EXCEPT ![i + 1] = 1]]
                 ELSE IF toProcess = EXP THEN
                     IF Len(savexplst) - 1 < 0 THEN [base EXCEPT !.e = MsgNoExpToProcess]
                     ELSE [base EXCEPT !.a = <<args[1], EXP>>, !.pl = pl1]
                 ELSE [base EXCEPT !.e = MsgUnknownProcess]
        ELSE base

\* the check for a waiting variable or expression (scipnlmex.cpp:330-363):
\* the registers, variable index, lists and instruction array after it
PopWaiting ==
    LET base == [e |-> NoError, a |-> args, v |-> varcnt, vl |-> savvarlst,
                 pl |-> savprolst, ins |-> instr]
    IN  IF args[2] = EMPTY /\ Len(savprolst) - 1 >= 0
        THEN LET toProcess == savprolst[Len(savprolst)]
                 pl1 == SubSeq(savprolst, 1, Len(savprolst) - 1)
             IN  IF toProcess = VAR THEN
                     IF Len(savvarlst) - 1 < 0 THEN [base EXCEPT !.e = MsgNoVarToProcess]
                     ELSE IF savvarlst[Len(savvarlst)] < 0 THEN [base EXCEPT !.e = MsgEmptyVar]
                     ELSE [e |-> NoError, a |-> <<args[1], VAR>>,
                           v |-> savvarlst[Len(savvarlst)],
                           vl |-> SubSeq(savvarlst, 1, Len(savvarlst) - 1),
                           pl |-> pl1, ins |-> [instr EXCEPT ![i + 1] = 1]]
                 ELSE IF toProcess = EXP THEN
                     IF Len(savexplst) - 1 < 0 THEN [base EXCEPT !.e = MsgNoExpToProcess]
                     ELSE [base EXCEPT !.a = <<args[1], EXP>>, !.pl = pl1]
                 ELSE [base EXCEPT !.e = MsgUnknownProcess]
        ELSE base

Failed(m) == [e |-> m, nd |-> ExprValue(Q(0))]
Made(nd) == [e |-> NoError, nd |-> nd]

\* NUM (op) VAR (scipnlmex.cpp:370-403)
NumOpVar(op, v) ==
    CASE op = ADD -> Made(ExprSum(<<VarRef(v)>>, <<Q(1)>>, num))
      [] op = SUB -> Made(ExprSum(<<VarRef(v)>>, <<Q(-1)>>, num))
      [] op = MUL -> Made(ExprSum(<<VarRef(v)>>, <<num>>, Q(0)))
      [] op = DIV -> Made(ExprSum(<<InvOf(VarRef(v))>>, <<num>>, Q(0)))
      [] op = POW -> Failed(MsgPower)
      [] OTHER -> Failed(MsgNotImplemented)

\* faulty variant, for sensitivity analysis: var + num built with the constant negated
VarOpNumNegAdd(op, v) ==
    CASE op = ADD -> Made(ExprSum(<<VarRef(v)>>, <<Q(1)>>, QNeg(num)))
      [] op = SUB -> Made(ExprSum(<<VarRef(v)>>, <<Q(1)>>, QNeg(num)))
      [] op = MUL -> Made(ExprSum(<<VarRef(v)>>, <<num>>, Q(0)))
      [] op = DIV -> IF num = Q(0) THEN Failed(MsgDivConst)
                     ELSE Made(ExprSum(<<VarRef(v)>>, <<QInv(num)>>, Q(0)))
      [] op = POW -> Made(ExprPow(VarRef(v), num))
      [] OTHER -> Failed(MsgNotImplemented)

\* faulty variant, for sensitivity analysis: var / num without the test for a zero constant
VarOpNumNoZeroTest(op, v) ==
    CASE op = ADD -> Made(ExprSum(<<VarRef(v)>>, <<Q(1)>>, num))
      [] op = SUB -> Made(ExprSum(<<VarRef(v)>>, <<Q(1)>>, QNeg(num)))
      [] op = MUL -> Made(ExprSum(<<VarRef(v)>>, <<num>>, Q(0)))
      [] op = DIV -> Made(ExprSum(<<VarRef(v)>>, <<QInv(num)>>, Q(0)))
      [] op = POW -> Made(ExprPow(VarRef(v), num))
      [] OTHER -> Failed(MsgNotImplemented)

\* VAR (op) NUM (scipnlmex.cpp:405-438)
VarOpNum(op, v) ==
    CASE op = ADD -> Made(ExprSum(<<VarRef(v)>>, <<Q(1)>>, num))
      [] op = SUB -> Made(ExprSum(<<VarRef(v)>>, <<Q(1)>>, QNeg(num)))
      [] op = MUL -> Made(ExprSum(<<VarRef(v)>>, <<num>>, Q(0)))
      [] op = DIV -> IF num = Q(0) THEN Failed(MsgDivConst)
                     ELSE Made(ExprSum(<<VarRef(v)>>, <<QInv(num)>>, Q(0)))
      [] op = POW -> Made(ExprPow(VarRef(v), num))
      [] OTHER -> Failed(MsgNotImplemented)

\* faulty variant, for sensitivity analysis: var ^ var accepted and built as a product
VarOpVarPowAccepted(op, v) ==
    CASE op = ADD -> Made(ExprSum(<<VarRef(v - 1), VarRef(v)>>, <<Q(1), Q(1)>>, Q(0)))
      [] op = SUB -> Made(ExprSum(<<VarRef(v - 1), VarRef(v)>>, <<Q(1), Q(-1)>>, Q(0)))
      [] op = MUL -> Made(ExprProduct(<<VarRef(v - 1), VarRef(v)>>, Q(1)))
      [] op = DIV -> Made(ExprProduct(<<VarRef(v - 1), InvOf(VarRef(v))>>, Q(1)))
      [] OTHER -> Made(ExprProduct(<<VarRef(v - 1), VarRef(v)>>, Q(1)))

\* VAR (op) VAR (scipnlmex.cpp:440-478)
VarOpVar(op, v) ==
    CASE op = ADD -> Made(ExprSum(<<VarRef(v - 1), VarRef(v)>>, <<Q(1), Q(1)>>, Q(0)))
      [] op = SUB -> Made(ExprSum(<<VarRef(v - 1), VarRef(v)>>, <<Q(1), Q(-1)>>, Q(0)))
      [] op = MUL -> Made(ExprProduct(<<VarRef(v - 1), VarRef(v)>>, Q(1)))
      [] op = DIV -> Made(ExprProduct(<<VarRef(v - 1), InvOf(VarRef(v))>>, Q(1)))
      [] op = POW -> Failed(MsgPower)
      [] OTHER -> Failed(MsgNotImplemented)

\* EXP (op) NUM (scipnlmex.cpp:480-531); flip is instr[i] == 1
ExpOpNum(op, flip) ==
    CASE op = ADD -> Made(ExprSum(<<ExpRef(expno - 1)>>, <<Q(1)>>, num))
      [] op = SUB -> IF flip THEN Made(ExprSum(<<ExpRef(expno - 1)>>, <<Q(-1)>>, num))
                     ELSE Made(ExprSum(<<ExpRef(expno - 1)>>, <<Q(1)>>, QNeg(num)))
      [] op = MUL -> Made(ExprSum(<<ExpRef(expno - 1)>>, <<num>>, Q(0)))
      [] op = DIV -> IF flip THEN Made(ExprSum(<<InvOf(ExpRef(expno - 1))>>, <<num>>, Q(0)))
                     ELSE IF num = Q(0) THEN Failed(MsgDivConst)
                     ELSE Made(ExprSum(<<ExpRef(expno - 1)>>, <<QInv(num)>>, Q(0)))
      [] op = POW -> Made(ExprPow(ExpRef(expno - 1), num))
      [] OTHER -> Failed(MsgNotImplemented)

\* faulty variant, for sensitivity analysis: exp (op) var counted as one level too deep
ExpOpVarTooDeep(op, v, flip) == Failed(MsgDepthExp)

\* faulty variant, for sensitivity analysis: the flip mark is not looked at
ExpOpVarNoFlip(op, v, flip) ==
    CASE op = ADD -> Made(ExprSum(<<ExpRef(expno - 1), VarRef(v)>>, <<Q(1), Q(1)>>, Q(0)))
      [] op = SUB -> Made(ExprSum(<<ExpRef(expno - 1), VarRef(v)>>, <<Q(1), Q(-1)>>, Q(0)))
      [] op = MUL -> Made(ExprProduct(<<ExpRef(expno - 1), VarRef(v)>>, Q(1)))
      [] op = DIV -> Made(ExprProduct(<<InvOf(VarRef(v)), ExpRef(expno - 1)>>, Q(1)))
      [] op = POW -> Failed(MsgPower)
      [] OTHER -> Failed(MsgNotImplemented)

\* EXP (op) VAR (scipnlmex.cpp:533-592)
ExpOpVar(op, v, flip) ==
    CASE op = ADD -> Made(ExprSum(<<ExpRef(expno - 1), VarRef(v)>>, <<Q(1), Q(1)>>, Q(0)))
      [] op = SUB -> IF flip
                     THEN Made(ExprSum(<<ExpRef(expno - 1), VarRef(v)>>, <<Q(-1), Q(1)>>, Q(0)))
                     ELSE Made(ExprSum(<<ExpRef(expno - 1), VarRef(v)>>, <<Q(1), Q(-1)>>, Q(0)))
      [] op = MUL -> Made(ExprProduct(<<ExpRef(expno - 1), VarRef(v)>>, Q(1)))
      [] op = DIV -> IF flip
                     THEN Made(ExprProduct(<<InvOf(ExpRef(expno - 1)), VarRef(v)>>, Q(1)))
                     ELSE Made(ExprProduct(<<InvOf(VarRef(v)), ExpRef(expno - 1)>>, Q(1)))
      [] op = POW -> Failed(MsgPower)
      [] OTHER -> Failed(MsgNotImplemented)

\* EXP (op) EXP (scipnlmex.cpp:594-656); sx is savexp
\* faulty variant, for sensitivity analysis: the waiting expression is taken as the right
\* operand of - and /
ExpOpExpSwapped(op, sx, flip) ==
    IF sx < 0 THEN Failed(MsgEmptyExp)
    ELSE
    CASE op = ADD -> Made(ExprSum(<<ExpRef(sx), ExpRef(expno - 1)>>, <<Q(1), Q(1)>>, Q(0)))
      [] op = SUB -> Made(ExprSum(<<ExpRef(sx), ExpRef(expno - 1)>>, <<Q(-1), Q(1)>>, Q(0)))
      [] op = MUL -> Made(ExprProduct(<<ExpRef(sx), ExpRef(expno - 1)>>, Q(1)))
      [] op = DIV -> Made(ExprProduct(<<InvOf(ExpRef(sx)), ExpRef(expno - 1)>>, Q(1)))
      [] OTHER -> Failed(MsgCombine)

\* faulty variant, for sensitivity analysis: the last expression is taken for both operands
ExpOpExpSame(op, sx, flip) ==
    IF sx < 0 THEN Failed(MsgEmptyExp)
    ELSE
    CASE op \in {ADD, SUB} ->
             Made(ExprSum(<<ExpRef(expno - 1), ExpRef(expno - 1)>>, <<Q(1), Q(1)>>, Q(0)))
      [] op \in {MUL, DIV} ->
             Made(ExprProduct(<<ExpRef(expno - 1), ExpRef(expno - 1)>>, Q(1)))
      [] OTHER -> Failed(MsgCombine)

ExpOpExp(op, sx, flip) ==
    IF sx < 0 THEN Failed(MsgEmptyExp)
    ELSE
    CASE op = ADD -> Made(ExprSum(<<ExpRef(sx), ExpRef(expno - 1)>>, <<Q(1), Q(1)>>, Q(0)))
      [] op = SUB -> IF flip
                     THEN Made(ExprSum(<<ExpRef(sx), ExpRef(expno - 1)>>, <<Q(-1), Q(1)>>, Q(0)))
                     ELSE Made(ExprSum(<<ExpRef(sx), ExpRef(expno - 1)>>, <<Q(1), Q(-1)>>, Q(0)))
      [] op = MUL -> Made(ExprProduct(<<ExpRef(sx), ExpRef(expno - 1)>>, Q(1)))
      [] op = DIV -> IF flip
                     THEN Made(ExprProduct(<<InvOf(ExpRef(sx)), ExpRef(expno - 1)>>, Q(1)))
                     ELSE Made(ExprProduct(<<InvOf(ExpRef(expno - 1)), ExpRef(sx)>>, Q(1)))
      [] OTHER -> Failed(MsgCombine)

\* faulty variant, for sensitivity analysis: the test for two arguments is missing
DispatchNoArityTest(op, a, v, flip, sx) ==
    IF a[1] = NUM /\ a[2] = VAR THEN NumOpVar(op, v)
    ELSE IF a[1] = VAR /\ a[2] = NUM THEN VarOpNum(op, v)
    ELSE IF a[1] = VAR /\ a[2] = VAR THEN VarOpVar(op, v)
    ELSE IF a[1] = EXP /\ a[2] = NUM THEN ExpOpNum(op, flip)
    ELSE IF a[1] = EXP /\ a[2] = VAR THEN ExpOpVar(op, v, flip)
    ELSE IF a[1] = EXP /\ a[2] = EXP THEN ExpOpExp(op, sx, flip)
    ELSE Failed(MsgGrouping)

\* the dispatch on the pair of register kinds (scipnlmex.cpp:365-658)
Dispatch(op, a, v, flip, sx) ==
    IF a[1] = EMPTY \/ a[2] = EMPTY THEN Failed(MsgTwoOperands)
    ELSE IF a[1] = NUM /\ a[2] = VAR THEN NumOpVar(op, v)
    ELSE IF a[1] = VAR /\ a[2] = NUM THEN VarOpNum(op, v)
    ELSE IF a[1] = VAR /\ a[2] = VAR THEN VarOpVar(op, v)
    ELSE IF a[1] = EXP /\ a[2] = NUM THEN ExpOpNum(op, flip)
    ELSE IF a[1] = EXP /\ a[2] = VAR THEN ExpOpVar(op, v, flip)
    ELSE IF a[1] = EXP /\ a[2] = EXP THEN ExpOpExp(op, sx, flip)
    ELSE Failed(MsgGrouping)

\* the end of an operator step (scipnlmex.cpp:660-667, 796-803)
EndOfStep ==
    /\ IF i = no_instr - 1
       THEN state' = EXIT /\ expno' = expno
       ELSE state' = READ /\ expno' = expno + 1
    /\ i' = i + 1

\* faulty variant, for sensitivity analysis: exp (op) exp leaves the waiting expression in
\* its list
BinaryStepKeepsExp ==
    /\ InLoop
    /\ state \in BinaryOps
    /\ LET p == PopWaiting
           isEE == p.a[1] = EXP /\ p.a[2] = EXP
           sx == IF isEE THEN savexplst[Len(savexplst)] ELSE savexp
           r == Dispatch(state, p.a, p.v, At(p.ins, i) = 1, sx)
       IN  IF p.e # NoError \/ r.e # NoError
           THEN Fail(IF p.e # NoError THEN p.e ELSE r.e)
           ELSE /\ exp' = (expno :> r.nd) @@ exp
                /\ args' = <<EXP, EMPTY>>
                /\ vari' = p.v
                /\ savexp' = sx
                /\ savexplst' = savexplst
                /\ savvarlst' = p.vl
                /\ savprolst' = p.pl
                /\ instr' = p.ins
                /\ EndOfStep
                /\ UNCHANGED <<no_instr, isObj, pc, err, num, varcnt, no_var,
                               no_ops, varind, xval, fval, conss, nprobvars,
                               conval, warned, ts>>
    /\ UNCHANGED <<callerIn, addedvars>>

\* faulty variant, for sensitivity analysis: exp (op) exp takes the expression that has
\* waited longest
BinaryStepOldestFirst ==
    /\ InLoop
    /\ state \in BinaryOps
    /\ LET p == PopWaiting
           isEE == p.a[1] = EXP /\ p.a[2] = EXP
           sx == IF isEE THEN savexplst[1] ELSE savexp
           r == Dispatch(state, p.a, p.v, At(p.ins, i) = 1, sx)
       IN  IF p.e # NoError \/ r.e # NoError
           THEN Fail(IF p.e # NoError THEN p.e ELSE r.e)
           ELSE /\ exp' = (expno :> r.nd) @@ exp
                /\ args' = <<EXP, EMPTY>>
                /\ vari' = p.v
                /\ savexp' = sx
                /\ savexplst' = IF isEE THEN Tail(savexplst) ELSE savexplst
                /\ savvarlst' = p.vl
                /\ savprolst' = p.pl
                /\ instr' = p.ins
                /\ EndOfStep
                /\ UNCHANGED <<no_instr, isObj, pc, err, num, varcnt, no_var,
                               no_ops, varind, xval, fval, conss, nprobvars,
                               conval, warned, ts>>
    /\ UNCHANGED <<callerIn, addedvars>>

BinaryStep ==
    /\ InLoop
    /\ state \in BinaryOps
    /\ LET p == PopWaiting
           isEE == p.a[1] = EXP /\ p.a[2] = EXP
           sx == IF isEE THEN savexplst[Len(savexplst)] ELSE savexp
           r == Dispatch(state, p.a, p.v, At(p.ins, i) = 1, sx)
       IN  IF p.e # NoError \/ r.e # NoError
           THEN Fail(IF p.e # NoError THEN p.e ELSE r.e)
           ELSE /\ exp' = (expno :> r.nd) @@ exp
                /\ args' = <<EXP, EMPTY>>
                /\ vari' = p.v
                /\ savexp' = sx
                /\ savexplst' = IF isEE THEN SubSeq(savexplst, 1, Len(savexplst) - 1)
                                ELSE savexplst
                /\ savvarlst' = p.vl
                /\ savprolst' = p.pl
                /\ instr' = p.ins
                /\ EndOfStep
                /\ UNCHANGED <<no_instr, isObj, pc, err, num, varcnt, no_var,
                               no_ops, varind, xval, fval, conss, nprobvars,
                               conval, warned, ts>>
    /\ UNCHANGED <<callerIn, addedvars>>

(***************************************************************************)
(* Single operand functions (scipnlmex.cpp:670-803)                        *)
(***************************************************************************)
\* the saving of an unprocessed expression or variable (scipnlmex.cpp:685-717)
SaveUnprocessed ==
    LET base == [e |-> NoError, a |-> args, xl |-> savexplst, vl |-> savvarlst,
                 pl |-> savprolst, oob |-> FALSE]
    IN  IF args[1] = EXP /\ args[2] = VAR THEN
            IF Len(savexplst) - 1 >= MAX_DEPTH THEN [base EXCEPT !.e = MsgDepthExp]
            ELSE [base EXCEPT !.a = <<VAR, EMPTY>>,
                              !.xl = Append(savexplst, expno - 1),
                              !.pl = Append(savprolst, EXP),
                              !.oob = Overrun(savexplst, MAX_DEPTH)
                                        \/ Overrun(savprolst, 2 * MAX_DEPTH)]
        ELSE IF args[1] = VAR /\ args[2] = VAR THEN
            IF Len(savvarlst) - 1 >= MAX_DEPTH THEN [base EXCEPT !.e = MsgDepthVar]
            ELSE [base EXCEPT !.vl = Append(savvarlst, varcnt - 1),
                              !.pl = Append(savprolst, VAR),
                              !.oob = Overrun(savvarlst, MAX_DEPTH)
                                        \/ Overrun(savprolst, 2 * MAX_DEPTH)]
        ELSE base

\* faulty variant, for sensitivity analysis: SQUARE is given a node of its own
FcnNodeWithSquare(op, ch) ==
    CASE op = SQRT -> Made(ExprPow(ch, Frac(1, 2)))
      [] op = SQUARE -> Made(ExprPow(ch, Q(2)))
      [] op \in {EXPNT, LOG, ABS, SIN, COS} -> Made(ExprFun(op, ch))
      [] OTHER -> Failed(MsgNotImplemented)

\* FCN ( VAR ) and FCN ( EXP ) (scipnlmex.cpp:720-794)
FcnNode(op, ch) ==
    CASE op = SQRT -> Made(ExprPow(ch, Frac(1, 2)))
      [] op \in {EXPNT, LOG, ABS, SIN, COS} -> Made(ExprFun(op, ch))
      [] OTHER -> Failed(MsgNotImplemented)

UnaryStep ==
    /\ InLoop
    /\ state \in UnaryOps
    /\ IF args[1] = EMPTY THEN Fail(MsgNoOperand)
       ELSE LET p == SaveUnprocessed
                r == IF p.a[1] = VAR
                     THEN (IF varcnt < 0 THEN Failed(MsgNegVar)
                           ELSE FcnNode(state, VarRef(varcnt)))
                     ELSE IF p.a[1] = EXP THEN FcnNode(state, ExpRef(expno - 1))
                     ELSE Failed(MsgUnknownArg)
            IN  IF p.e # NoError \/ r.e # NoError
                THEN \/ Fail(IF p.e # NoError THEN p.e ELSE r.e)
                     \/ p.oob /\ Fail(MsgCrash)
                ELSE \/ /\ exp' = (expno :> r.nd) @@ exp
                        /\ args' = <<EXP, EMPTY>>
                        /\ vari' = varcnt
                        /\ savexplst' = p.xl
                        /\ savvarlst' = p.vl
                        /\ savprolst' = p.pl
                        /\ EndOfStep
                        /\ UNCHANGED <<instr, no_instr, isObj, pc, err, num, varcnt,
                                       savexp, no_var, no_ops, varind, xval, fval,
                                       conss, nprobvars, conval, warned, ts>>
                     \/ p.oob /\ Fail(MsgCrash)
    /\ UNCHANGED <<callerIn, addedvars>>

\* faulty variant, for sensitivity analysis: TAN falls through to the message of SIGN
UnsupportedMsgFallThrough(op) ==
    IF op \in {MIN, MAX} THEN MsgMinMax
    ELSE MsgSign

\* case MIN, MAX, TAN, SIGN (scipnlmex.cpp:805-814)
UnsupportedMsg(op) ==
    IF op \in {MIN, MAX} THEN MsgMinMax
    ELSE IF op = TAN THEN MsgTan
    ELSE MsgSign

UnsupportedStep ==
    /\ InLoop
    /\ state \in UnsupportedOps
    /\ Fail(UnsupportedMsg(state))
    /\ UNCHANGED <<callerIn, addedvars>>

\* case EXIT (scipnlmex.cpp:816-817)
ExitStep ==
    /\ InLoop
    /\ state = EXIT
    /\ i' = i + 1
    /\ UNCHANGED <<instr, no_instr, isObj, pc, err, state, args, num, varcnt,
                   vari, expno, savexp, savexplst, savvarlst, savprolst, no_var,
                   no_ops, varind, exp, xval, fval, conss, nprobvars, conval,
                   warned, ts>>
    /\ UNCHANGED <<callerIn, addedvars>>

\* default (scipnlmex.cpp:819-820)
KnownStates == {READ, NUM, VAR, EXIT} \cup BinaryOps \cup UnaryOps \cup UnsupportedOps

UnknownStep ==
    /\ InLoop
    /\ state \notin KnownStates
    /\ Fail(MsgUnknownInstr)
    /\ UNCHANGED <<callerIn, addedvars>>

\* the loop condition fails (scipnlmex.cpp:224)
LoopEnd ==
    /\ pc = "loop"
    /\ i >= no_instr
    /\ pc' = "validate"
    /\ UNCHANGED <<instr, no_instr, isObj, err, i, state, args, num, varcnt,
                   vari, expno, savexp, savexplst, savvarlst, savprolst, no_var,
                   no_ops, varind, exp, xval, fval, conss, nprobvars, conval,
                   warned, ts>>
    /\ UNCHANGED <<callerIn, addedvars>>

(***************************************************************************)
(* Validation and constraint creation (scipnlmex.cpp:830-876)              *)
(***************************************************************************)
\* exp[expno] was created by this call
RootCreated == expno \in DOMAIN exp

\* 'Validate' the constraint if initial guess supplied (scipnlmex.cpp:830-840).
\* Evaluating an entry of exp that was never written is undefined: the call
\* crashes or returns some value.
PassedPoints ==
    IF ~XvalPassed THEN {NoPoint}
    ELSE IF xval # NoPoint THEN {xval}
    ELSE Points

\* nvars = SCIPgetNVars(scip), read when the call is entered
\* (scipnlmex.cpp:111): the variables of the problem before nlobj is added
nvars == IF isObj THEN nprobvars - 1 ELSE nprobvars
\* SCIPsetSolVals(scip, sol, nvars, vars, xval) reads nvars entries of vars
\* and of xval (scipnlmex.cpp:834), which have ndec entries each
\* (scipmex.cpp:907, 1287): with more variables in the problem the read runs
\* past both arrays, which is undefined: the call crashes or goes on
SetSolValsOutcomes == IF nvars > ndec THEN {"crash", "go"} ELSE {"go"}

Validate ==
    /\ pc = "validate"
    /\ \E p \in PassedPoints :
         /\ xval' = p
         /\ IF p = NoPoint
            THEN fval' = fval /\ pc' = "emit" /\ err' = err
            ELSE \E o \in SetSolValsOutcomes :
                 LET v == EvalExp(expno, exp, p, varind)
                 IN  IF o = "crash"
                     THEN fval' = fval /\ pc' = "error" /\ err' = MsgCrash
                     ELSE IF v.k # "undef"
                     THEN fval' = v /\ pc' = "emit" /\ err' = err
                     ELSE \/ fval' = fval /\ pc' = "error" /\ err' = MsgCrash
                          \/ fval' \in GarbageVals /\ pc' = "emit" /\ err' = err
    /\ UNCHANGED <<instr, no_instr, isObj, i, state, args, num, varcnt, vari,
                   expno, savexp, savexplst, savvarlst, savprolst, no_var,
                   no_ops, varind, exp, conss, nprobvars, conval, warned, ts>>
    /\ UNCHANGED <<callerIn, addedvars>>

\* SCIPcreateConsBasicNonlinear ... SCIPaddCons (scipnlmex.cpp:842-859)
\* faulty variant, for sensitivity analysis: nlobj enters with the opposite sign
LinearTermPlus ==
    IF isObj THEN <<[var |-> Len(addedvars), coef |-> 1]>> ELSE <<>>

\* the linear part of the constraint: -1.0 * nlobj for the objective
\* (scipnlmex.cpp:851-855); nlobj is the variable added last
LinearTerm ==
    IF isObj THEN <<[var |-> Len(addedvars), coef |-> -1]>> ELSE <<>>

Emit ==
    /\ pc = "emit"
    /\ \/ /\ conss' = Append(conss, [root |-> expno, created |-> RootCreated,
                                     obj |-> isObj, lhs |-> lhs, rhs |-> rhs,
                                     lin |-> LinearTerm, src |-> instr,
                                     tree |-> exp, val |-> fval])
          /\ pc' = "compare"
          /\ err' = err
       \/ /\ ~RootCreated
          /\ conss' = conss
          /\ pc' = "error"
          /\ err' = MsgCrash
    /\ UNCHANGED <<instr, no_instr, isObj, i, state, args, num, varcnt, vari,
                   expno, savexp, savexplst, savvarlst, savprolst, no_var,
                   no_ops, varind, exp, xval, fval, nprobvars, conval, warned, ts>>
    /\ UNCHANGED <<callerIn, addedvars>>

(***************************************************************************)
(* The caller's validation test (scipmex.cpp:1329-1347, 1384-1400)         *)
(***************************************************************************)
\* the expected values a caller may hand in: the value of the denoted
\* expression at the point, or some other number
ExpectedVals(s, p) ==
    (IF WellFormed(s) THEN {Denoted(s, p)} ELSE {})
    \cup (IF WellFormedTokens(s) THEN {DenotedTokens(s, p)} ELSE {})
    \cup {Q(7)}

\* SCIPisFeasPositive(scip, REALABS(a - b)), for rational a and b
Mismatch(a, b) == QLess(feastol, QAbs(QSub(a, b)))

\* faulty variant, for sensitivity analysis: a failed validation test aborts the build
ReportFatal(failed) ==
    /\ warned' = (warned \/ failed)
    /\ ts' = IF failed THEN 0 ELSE ts
    /\ pc' = IF failed THEN "error" ELSE "done"
    /\ err' = IF failed THEN MsgOrder ELSE err

\* the outcome of the validation test: a warning and ts = 0 when it failed
\* (scipmex.cpp:1336-1341, 1361-1366, 1389-1394); the caller goes on
Report(failed) ==
    /\ warned' = (warned \/ failed)
    /\ ts' = IF failed THEN 0 ELSE ts
    /\ pc' = "done"
    /\ err' = err

\* A value that is not rational here (an evaluation error, an irrational
\* number) is compared outside the model: either outcome is possible.
\* conval and objval are assigned only where their field is present
\* (scipmex.cpp:1283, 1293): reading through one that was never assigned is
\* undefined, the caller crashes or compares with some value.
Compare ==
    /\ pc = "compare"
    /\ IF xval = NoPoint
       THEN pc' = "done" /\ UNCHANGED <<err, conval, warned, ts>>
       ELSE IF Wanted \in given
       THEN \E ev \in ExpectedVals(instr, xval) :
              /\ conval' = ev
              /\ IF ~IsQ(fval) \/ ~IsQ(ev)
                 THEN \E w \in BOOLEAN : Report(w)
                 ELSE Report(Mismatch(fval, ev))
       ELSE \/ /\ pc' = "error"
               /\ err' = MsgCrash
               /\ UNCHANGED <<conval, warned, ts>>
            \/ \E ev \in GarbageVals :
                 /\ conval' = ev
                 /\ \E w \in BOOLEAN : Report(w)
    /\ UNCHANGED <<instr, no_instr, isObj, i, state, args, num, varcnt,
                   vari, expno, savexp, savexplst, savvarlst, savprolst, no_var,
                   no_ops, varind, exp, xval, fval, conss, nprobvars>>
    /\ UNCHANGED <<callerIn, addedvars>>

(***************************************************************************)
(* The caller's loop over the constraints and the objective                *)
(* (scipmex.cpp:1300-1401)                                                 *)
(***************************************************************************)
\* faulty variant, for sensitivity analysis: the count of variable occurrences is carried
\* over from the call before
NextCallKeepsVarcnt ==
    /\ pc = "done"
    /\ pending # <<>>
    /\ instr' = Head(pending).instr
    /\ no_instr' = Len(Head(pending).instr)
    /\ isObj' = Head(pending).isObj
    /\ lhs' = Head(pending).lhs
    /\ rhs' = Head(pending).rhs
    /\ pending' = Tail(pending)
    /\ pc' = "start"
    /\ i' = 0
    /\ state' = READ
    /\ args' = <<EMPTY, EMPTY>>
    /\ num' = Q(0)
    /\ vari' = -1
    /\ expno' = 0
    /\ savexp' = 0
    /\ savexplst' = <<>>
    /\ savvarlst' = <<>>
    /\ savprolst' = <<>>
    /\ no_var' = 0
    /\ no_ops' = 0
    /\ varind' = <<>>
    /\ exp' = EmptyArena
    /\ fval' = Q(0)
    /\ UNCHANGED <<err, xval, conss, nprobvars, conval, warned, ts, given,
                   addedvars, varcnt, earlier, xout>>

\* the next call of addNonlinearCon: the next cell of instr, or obj_instr
\* after the constraints (scipmex.cpp:1322-1330, 1377-1384).  The locals of
\* addNonlinearCon start afresh (scipnlmex.cpp:78-107).
NextCall ==
    /\ pc = "done"
    /\ pending # <<>>
    /\ instr' = Head(pending).instr
    /\ no_instr' = Len(Head(pending).instr)
    /\ isObj' = Head(pending).isObj
    /\ lhs' = Head(pending).lhs
    /\ rhs' = Head(pending).rhs
    /\ pending' = Tail(pending)
    /\ pc' = "start"
    /\ i' = 0
    /\ state' = READ
    /\ args' = <<EMPTY, EMPTY>>
    /\ num' = Q(0)
    /\ varcnt' = -1
    /\ vari' = -1
    /\ expno' = 0
    /\ savexp' = 0
    /\ savexplst' = <<>>
    /\ savvarlst' = <<>>
    /\ savprolst' = <<>>
    /\ no_var' = 0
    /\ no_ops' = 0
    /\ varind' = <<>>
    /\ exp' = EmptyArena
    /\ fval' = Q(0)
    /\ UNCHANGED <<err, xval, conss, nprobvars, conval, warned, ts, given,
                   addedvars, earlier, xout>>

Next ==
    \/ Enter
    \/ ReadStep
    \/ NumStep
    \/ VarStep
    \/ BinaryStep
    \/ UnaryStep
    \/ UnsupportedStep
    \/ ExitStep
    \/ UnknownStep
    \/ LoopEnd
    \/ Validate
    \/ Emit
    \/ Compare

Spec == Init /\ [][Next]_vars

\* streams the caller hands in: three that compile, one that fails, and
\* three that end at a step of another kind
CallerStreams == {<<VAR, 0, NUM, 3, MUL, 0>>, <<NUM, 3, VAR, 1, SUB, 0>>,
                  <<VAR, 1, ABS, 0>>, <<VAR, 0, SQUARE, 0>>,
                  <<VAR, 0, TAN, 0>>, <<VAR, 0, EXIT, 0>>, <<VAR, 0, EXP, 0>>}
MaxCons == 2       \* most constraints in one problem
ConCalls == {[instr |-> t, isObj |-> FALSE, lhs |-> b[1], rhs |-> b[2]] :
               t \in CallerStreams, b \in ConBounds}
ObjCalls == {[instr |-> t, isObj |-> TRUE, lhs |-> ObjBounds[1], rhs |-> ObjBounds[2]] :
               t \in CallerStreams}
\* the calls of one problem: the constraints in order, then the objective
InitCaller ==
    /\ \E n \in 0..MaxCons : \E f \in [1..n -> ConCalls] :
         \E q \in (IF n > 0 THEN {f} ELSE {}) \cup {Append(f, o) : o \in ObjCalls} :
            /\ instr = Head(q).instr
            /\ isObj = Head(q).isObj
            /\ lhs = Head(q).lhs
            /\ rhs = Head(q).rhs
            /\ pending = Tail(q)
    /\ given \in SUBSET Fields
    /\ no_instr = Len(instr)
    /\ pc = "start"
    /\ err = NoError
    /\ i = 0
    /\ state = READ
    /\ args = <<EMPTY, EMPTY>>
    /\ num = Q(0)
    /\ varcnt = -1
    /\ vari = -1
    /\ expno = 0
    /\ savexp = 0
    /\ savexplst = <<>>
    /\ savvarlst = <<>>
    /\ savprolst = <<>>
    /\ no_var = 0
    /\ no_ops = 0
    /\ varind = <<>>
    /\ exp = EmptyArena
    /\ xval = NoPoint
    /\ fval = Q(0)
    /\ conss = <<>>
    /\ nprobvars = ndec
    /\ conval = Q(0)
    /\ warned = FALSE
    /\ ts = 1
    /\ addedvars = <<>>
    /\ earlier = <<>>
    /\ xout = <<>>

NextCaller == Next \/ NextCall
SpecCaller == InitCaller /\ [][NextCaller]_vars

\* mexFunction after the last call (scipmex.cpp:1434-1491): the problem is
\* solved, or written to probfile, or, in test mode (tm # 0, no probfile),
\* the test status is returned in x[0]
Modes == {"solve", "write", "test"}
\* faulty variant, for sensitivity analysis: the status returned is that of the last
\* comparison alone
ReturnLast ==
    /\ pc = "done"
    /\ pending = <<>>
    /\ xout = <<>>
    /\ \E m \in Modes :
         xout' = IF m = "test"
                 THEN <<m, IF xval # NoPoint /\ IsQ(fval) /\ IsQ(conval)
                              /\ Mismatch(fval, conval) THEN 0 ELSE 1>>
                 ELSE <<m>>
    /\ pc' = "returned"
    /\ UNCHANGED <<instr, no_instr, isObj, err, i, state, args, num, varcnt,
                   vari, expno, savexp, savexplst, savvarlst, savprolst, no_var,
                   no_ops, varind, exp, xval, fval, conss, nprobvars, conval,
                   warned, ts, lhs, rhs, given, pending, addedvars, earlier>>

Return ==
    /\ pc = "done"
    /\ pending = <<>>
    /\ xout = <<>>
    /\ \E m \in Modes : xout' = IF m = "test" THEN <<m, ts>> ELSE <<m>>
    /\ pc' = "returned"
    /\ UNCHANGED <<instr, no_instr, isObj, err, i, state, args, num, varcnt,
                   vari, expno, savexp, savexplst, savvarlst, savprolst, no_var,
                   no_ops, varind, exp, xval, fval, conss, nprobvars, conval,
                   warned, ts, lhs, rhs, given, pending, addedvars, earlier>>

NextTest == NextCaller \/ Return
SpecTest == InitCaller /\ [][NextTest]_vars

(***************************************************************************)
(* The bounds of the nonlinear constraints as the caller hands them on     *)
(* (scipmex.cpp:1303-1330).  A bound is a finite number, an IEEE infinity  *)
(* or SCIP's infinity, each with its sign.                                 *)
(***************************************************************************)
Fin(n) == [k |-> "fin", v |-> n]
Inf(sgn) == [k |-> "inf", v |-> sgn]
SCIPinfinity(sgn) == [k |-> "SCIPinfinity", v |-> sgn]
\* mxIsInf is true of both infinities
mxIsInf(b) == b.k = "inf"
\* if ( mxIsInf(cl[i]) ) cl[i] = -SCIPinfinity(scip);   (1310-1311)
ClPassed(b) == IF mxIsInf(b) THEN SCIPinfinity(-1) ELSE b
\* if ( mxIsInf(cu[i]) ) cu[i] = SCIPinfinity(scip);    (1312-1313)
CuPassed(b) == IF mxIsInf(b) THEN SCIPinfinity(1) ELSE b

\* the bounds a caller may supply in cl and cu
SuppliedBounds == {Fin(-5), Fin(4), Inf(-1), Inf(1)}
BoundStreams == {<<VAR, 0, NUM, 3, MUL, 0, ABS, 0>>, <<VAR, 0, TAN, 0>>,
                 <<VAR, 0, EXIT, 0>>, <<VAR, 0, EXP, 0>>}
BoundCalls ==
    {[instr |-> t, isObj |-> FALSE, lhs |-> l, rhs |-> u] :
        t \in BoundStreams, l \in SuppliedBounds, u \in SuppliedBounds}
    \cup {[instr |-> t, isObj |-> TRUE, lhs |-> Fin(0), rhs |-> Fin(0)] :
        t \in BoundStreams}

\* the next call: a constraint with its bounds from the converted copies of
\* cl and cu (1329), the objective with 0 and 0 (1384)
CallWithBounds ==
    /\ pc = "done"
    /\ pending # <<>>
    /\ instr' = Head(pending).instr
    /\ no_instr' = Len(Head(pending).instr)
    /\ isObj' = Head(pending).isObj
    /\ lhs' = IF Head(pending).isObj THEN Fin(0) ELSE ClPassed(Head(pending).lhs)
    /\ rhs' = IF Head(pending).isObj THEN Fin(0) ELSE CuPassed(Head(pending).rhs)
    /\ pending' = Tail(pending)
    /\ pc' = "start"
    /\ i' = 0
    /\ state' = READ
    /\ args' = <<EMPTY, EMPTY>>
    /\ num' = Q(0)
    /\ varcnt' = -1
    /\ vari' = -1
    /\ expno' = 0
    /\ savexp' = 0
    /\ savexplst' = <<>>
    /\ savvarlst' = <<>>
    /\ savprolst' = <<>>
    /\ no_var' = 0
    /\ no_ops' = 0
    /\ varind' = <<>>
    /\ exp' = EmptyArena
    /\ fval' = Q(0)
    /\ UNCHANGED <<err, xval, conss, nprobvars, conval, warned, ts, given,
                   addedvars, earlier, xout>>

\* before the first call: the calls of the problem are all still to be made
InitBounds ==
    /\ \E n \in 0..MaxCons : \E f \in [1..n -> {c \in BoundCalls : ~c.isObj}] :
         pending \in (IF n > 0 THEN {f} ELSE {})
                     \cup {Append(f, o) : o \in {c \in BoundCalls : c.isObj}}
    /\ instr = <<>>
    /\ isObj = FALSE
    /\ lhs = Fin(0)
    /\ rhs = Fin(0)
    /\ given \in {{}, Fields}
    /\ no_instr = 0
    /\ pc = "done"
    /\ err = NoError
    /\ i = 0
    /\ state = READ
    /\ args = <<EMPTY, EMPTY>>
    /\ num = Q(0)
    /\ varcnt = -1
    /\ vari = -1
    /\ expno = 0
    /\ savexp = 0
    /\ savexplst = <<>>
    /\ savvarlst = <<>>
    /\ savprolst = <<>>
    /\ no_var = 0
    /\ no_ops = 0
    /\ varind = <<>>
    /\ exp = EmptyArena
    /\ xval = NoPoint
    /\ fval = Q(0)
    /\ conss = <<>>
    /\ nprobvars = ndec
    /\ conval = Q(0)
    /\ warned = FALSE
    /\ ts = 1
    /\ addedvars = <<>>
    /\ earlier = <<>>
    /\ xout = <<>>

NextBounds == Next \/ CallWithBounds
SpecBounds == InitBounds /\ [][NextBounds]_vars
SpecWF == InitWF /\ [][Next]_vars
SpecDeep == InitDeep /\ [][Next]_vars

(***************************************************************************)
(* A second call of addNonlinearCon on the same instr array: instr is the  *)
(* data of the caller's array (scipmex.cpp:1326, mxGetPr), so the call     *)
(* finds what the call before wrote into it; the locals start afresh       *)
(* (scipnlmex.cpp:78-121).                                                 *)
(***************************************************************************)
\* what a call leaves behind: the error raised, the nodes built, the root
\* and the evaluation value
Outcome == [err |-> err, tree |-> exp, root |-> expno,
            created |-> RootCreated, val |-> fval, ended |-> pc]

\* faulty variant, for sensitivity analysis: the index of the next node is carried over
\* from the call before
CallAgainKeepsExpno ==
    /\ pc \in {"done", "error"}
    /\ err # MsgCrash
    /\ earlier = <<>>
    /\ earlier' = <<Outcome>>
    /\ no_instr' = Len(instr)
    /\ pc' = "start"
    /\ err' = NoError
    /\ i' = 0
    /\ state' = READ
    /\ args' = <<EMPTY, EMPTY>>
    /\ num' = Q(0)
    /\ varcnt' = -1
    /\ vari' = -1
    /\ savexp' = 0
    /\ savexplst' = <<>>
    /\ savvarlst' = <<>>
    /\ savprolst' = <<>>
    /\ no_var' = 0
    /\ no_ops' = 0
    /\ varind' = <<>>
    /\ exp' = EmptyArena
    /\ fval' = Q(0)
    /\ UNCHANGED <<instr, isObj, xval, conss, nprobvars, conval, warned, ts,
                   lhs, rhs, given, pending, addedvars, expno, xout>>

CallAgain ==
    /\ pc \in {"done", "error"}
    /\ err # MsgCrash
    /\ earlier = <<>>
    /\ earlier' = <<Outcome>>
    /\ no_instr' = Len(instr)
    /\ pc' = "start"
    /\ err' = NoError
    /\ i' = 0
    /\ state' = READ
    /\ args' = <<EMPTY, EMPTY>>
    /\ num' = Q(0)
    /\ varcnt' = -1
    /\ vari' = -1
    /\ expno' = 0
    /\ savexp' = 0
    /\ savexplst' = <<>>
    /\ savvarlst' = <<>>
    /\ savprolst' = <<>>
    /\ no_var' = 0
    /\ no_ops' = 0
    /\ varind' = <<>>
    /\ exp' = EmptyArena
    /\ fval' = Q(0)
    /\ UNCHANGED <<instr, isObj, xval, conss, nprobvars, conval, warned, ts,
                   lhs, rhs, given, pending, addedvars, xout>>

NextTwice == Next \/ CallAgain
SpecTwice == InitWF /\ [][NextTwice]_vars

(***************************************************************************)
(* Calls on a problem that holds more than the decision variables (the     *)
(* objective bias variable and the quadratic objective variable,           *)
(* scipmex.cpp:952-961) and on streams whose variable slots are not all    *)
(* indices of decision variables.                                          *)
(***************************************************************************)
objb == [name |-> "objbiasterm", lb |-> "objbias", ub |-> "objbias",
         obj |-> 1, vartype |-> "SCIP_VARTYPE_CONTINUOUS"]
qobj == [name |-> "quadobj", lb |-> "-SCIPinfinity", ub |-> "SCIPinfinity",
         obj |-> 1, vartype |-> "SCIP_VARTYPE_CONTINUOUS"]
\* the variables the caller may have added after the decision variables
CallerAdded == {<<>>, <<objb>>, <<qobj>>, <<objb, qobj>>}
\* variable slots: the decision variables, and indices before and after them
AnyVarIdx == {-1, 0, ndec - 1, ndec, ndec + 1}
ProbStreams ==
       {<<VAR, v>> : v \in AnyVarIdx}
  \cup {<<VAR, v, NUM, 3, MUL, 0>> : v \in AnyVarIdx}
  \cup {<<VAR, 0, VAR, v, o, 0>> : v \in AnyVarIdx, o \in {ADD, SUB}}
  \cup {<<VAR, v, ABS, 0, VAR, 0, DIV, 0>> : v \in AnyVarIdx}
  \cup OddStreams
InitProb ==
    /\ instr \in ProbStreams
    /\ addedvars \in CallerAdded
    /\ nprobvars = ndec + Len(addedvars)
    /\ no_instr = Len(instr)
    /\ isObj \in BOOLEAN
    /\ pc = "start"
    /\ err = NoError
    /\ i = 0
    /\ state = READ
    /\ args = <<EMPTY, EMPTY>>
    /\ num = Q(0)
    /\ varcnt = -1
    /\ vari = -1
    /\ expno = 0
    /\ savexp = 0
    /\ savexplst = <<>>
    /\ savvarlst = <<>>
    /\ savprolst = <<>>
    /\ no_var = 0
    /\ no_ops = 0
    /\ varind = <<>>
    /\ exp = EmptyArena
    /\ xval = NoPoint
    /\ fval = Q(0)
    /\ conss = <<>>
    /\ conval = Q(0)
    /\ warned = FALSE
    /\ ts = 1
    /\ earlier = <<>>
    /\ xout = <<>>
    /\ LET b == IF isObj THEN ObjBounds ELSE <<-5, 4>>
       IN  lhs = b[1] /\ rhs = b[2]
    /\ given \in {{}, Fields}
    /\ pending = <<>>
SpecProb == InitProb /\ [][Next]_vars

(***************************************************************************)
(* Properties                                                              *)
(***************************************************************************)
Evaluated == pc \in {"emit", "compare", "done"} /\ xval # NoPoint
PastLoop == pc \in {"validate", "emit", "compare", "done"}

IsVarNumOp(s, n, op) == Len(s) = n /\ s[1] = VAR /\ s[3] = NUM /\ s[5] = op
IsVarVarOp(s, n, op) == Len(s) = n /\ s[1] = VAR /\ s[3] = VAR /\ s[5] = op

NothingTouched ==
    /\ args = <<EMPTY, EMPTY>>
    /\ savexplst = <<>>
    /\ savvarlst = <<>>
    /\ savprolst = <<>>
    /\ state = READ
    /\ i = 0
    /\ expno = 0
    /\ varcnt = -1

\* C3: a two element stream [NUM, c] is compiled before the builder loop to
\* the single constant node c; the loop does not run, no register and no list
\* is touched, and the root evaluates to c at every point.
C3_ConstantShortCut ==
    (Len(instr) = 2 /\ instr[1] = NUM /\ pc # "start") =>
        /\ exp = (0 :> ExprValue(Q(instr[2])))
        /\ no_instr = 0
        /\ NothingTouched
        /\ pc # "error"
        /\ Evaluated => fval = Q(instr[2])

\* C3 witness: the stream [NUM, 3] has been evaluated to 3
C3_Witness ==
    /\ pc = "done"
    /\ instr = <<NUM, 3>>
    /\ xval # NoPoint
    /\ fval = Q(3)
    /\ Len(conss) = 1

\* C4: a two element stream [VAR, i] is compiled before the builder loop to a
\* sum with the one term 1 * (variable i) and constant 0; the loop does not
\* run and the root evaluates to point[i] at every point.
C4_VariableShortCut ==
    (Len(instr) = 2 /\ instr[1] = VAR /\ pc # "start") =>
        /\ exp = (0 :> ExprSum(<<VarRef(0)>>, <<Q(1)>>, Q(0)))
        /\ varind = <<instr[2]>>
        /\ no_instr = 0
        /\ NothingTouched
        /\ pc # "error"
        /\ Evaluated => fval = Q(xval[instr[2] + 1])

\* C4 witness: the stream [VAR, last variable] has been evaluated to the
\* value of that variable at a point whose components differ
C4_Witness ==
    /\ pc = "done"
    /\ instr = <<VAR, ndec - 1>>
    /\ xval # NoPoint
    /\ xval[1] # xval[ndec]
    /\ fval = Q(xval[ndec])

ExpectedUnsupportedMsg(op) ==
    CASE op = MIN -> MsgMinMax
      [] op = MAX -> MsgMinMax
      [] op = TAN -> MsgTan
      [] op = SIGN -> MsgSign
      [] OTHER -> NoError

C8_NoMalformedOnWellFormed ==
    WellFormed(instr) => err \notin MalformedMsgs

Truncated(s) == Len(s) % 2 = 1 /\ s[Len(s)] \in {NUM, VAR}

\* C9: a truncated stream (the last opcode is NUM or VAR and no slot follows
\* it) fails; it never gets past the builder loop and no constraint is made
\* of it.
C9_TruncatedStreamFails ==
    Truncated(instr) => (~PastLoop /\ conss = <<>>)

\* C10: a binary operator step for which, after the check for a waiting
\* operand, args[0] or args[1] is still EMPTY fails with 'operator doesn't
\* have two operands' and creates no node.
C10_TwoOperandsRequired ==
    [][(InLoop /\ state \in BinaryOps
          /\ (args[1] = EMPTY \/ (args[2] = EMPTY /\ savprolst = <<>>)))
         => (pc' = "error" /\ err' = MsgTwoOperands /\ exp' = exp)]_vars

\* C10 witness: an operator met with one expression and nothing waiting has
\* failed
C10_Witness ==
    /\ pc = "error"
    /\ err = MsgTwoOperands
    /\ args = <<EXP, EMPTY>>
    /\ savprolst = <<>>
    /\ 0 \in DOMAIN exp

\* C11: none of the lists savexplst, savvarlst and savprolst ever holds more
\* entries than its capacity (MAX_DEPTH, MAX_DEPTH, 2 * MAX_DEPTH).
C11_ListsWithinCapacity ==
    /\ Len(savexplst) <= MAX_DEPTH
    /\ Len(savvarlst) <= MAX_DEPTH
    /\ Len(savprolst) <= 2 * MAX_DEPTH

TagCount(t) == Cardinality({k \in 1..Len(savprolst) : savprolst[k] = t})

C13_ListsConsistent ==
    /\ [](/\ Len(savprolst) = Len(savexplst) + Len(savvarlst)
          /\ TagCount(EXP) = Len(savexplst)
          /\ TagCount(VAR) = Len(savvarlst))
    /\ [][Len(savprolst') = Len(savprolst) - 1 =>
            /\ state \in BinaryOps
            /\ savprolst' = SubSeq(savprolst, 1, Len(savprolst) - 1)
            /\ savprolst[Len(savprolst)] = EXP =>
                  /\ savexplst' = SubSeq(savexplst, 1, Len(savexplst) - 1)
                  /\ Len(savexplst) >= 1
                  /\ savvarlst' = savvarlst
            /\ savprolst[Len(savprolst)] = VAR =>
                  /\ savvarlst' = SubSeq(savvarlst, 1, Len(savvarlst) - 1)
                  /\ Len(savvarlst) >= 1
                  /\ savexplst' = savexplst]_vars

\* C13 witness: an expression tag and a variable tag were waiting together and
\* both have been popped by operators
C13_Witness ==
    /\ pc = "done"
    /\ Len(instr) = Len(MixedSample)
    /\ \A k \in 1..Len(instr) : k # 14 => instr[k] = MixedSample[k]
    /\ instr[14] = 1      \* the flip mark written when the variable was popped
    /\ savprolst = <<>> /\ savexplst = <<>> /\ savvarlst = <<>>

Last(q) == q[Len(q)]

\* C15: a failed validation test is a warning only.  The step that issues it
\* raises no error, the constraint (or objective) of this call is already
\* among the constraints handed to SCIP, and no waiting call is dropped; the
\* test status is 0 from then on; and the caller goes on with the next
\* constraint or the objective whenever one is waiting.
C15_MismatchIsWarning ==
    /\ [][ts' # ts =>
            /\ pc = "compare" /\ pc' = "done" /\ ts' = 0 /\ warned'
            /\ err' = NoError
            /\ conss' = conss /\ conss # <<>>
            /\ Last(conss).root = expno /\ Last(conss).obj = isObj
            /\ pending' = pending]_vars
    /\ [](warned => ts = 0)
    /\ []((pc = "done" /\ pending # <<>>) => ENABLED NextCall)

\* C15 witness: the first constraint failed its validation test (3 * x0 is
\* not 7 at any of the points) and all three calls of the problem were made
\* and handed their constraint to SCIP
C15_Witness ==
    /\ pc = "done"
    /\ warned /\ ts = 0
    /\ pending = <<>>
    /\ Len(conss) = 3
    /\ ~conss[1].obj /\ conss[3].obj
    /\ given = Fields
    /\ err = NoError

\* C16: the value of a call is compared (the call was handed a point) only
\* when the field holding the expected values of that call was supplied
\* together with xval: nlcon_val for a constraint, obj_val for the objective.
C16_ComparedOnlyWhenSupplied ==
    (pc = "compare" /\ xval # NoPoint) => {"xval", Wanted} \subseteq given

\* C17: a call that completes hands exactly one constraint to SCIP, made of
\* the root and the two bounds the call was given.  For the objective the
\* bounds are both 0, the constraint carries the linear term -1 * nlobj, and
\* nlobj is the one variable the call has added to the problem: continuous,
\* unbounded on both sides, with objective coefficient 1.  A constraint call
\* adds no variable and no linear term.
C17_ObjectiveAndConstraint ==
    /\ [][pc' = "compare" =>
            /\ pc = "emit"
            /\ Len(conss') = Len(conss) + 1
            /\ SubSeq(conss', 1, Len(conss)) = conss
            /\ Last(conss').root = expno
            /\ Last(conss').lhs = lhs /\ Last(conss').rhs = rhs
            /\ IF isObj
               THEN /\ lhs = 0 /\ rhs = 0
                    /\ Last(conss').lin = <<[var |-> Len(addedvars), coef |-> -1]>>
               ELSE Last(conss').lin = <<>>]_vars
    /\ [][(pc' # "compare" /\ pc' # "error") => conss' = conss]_vars
    /\ [][pc' = "done" => pc = "compare"]_vars
    /\ [][addedvars' # addedvars =>
            /\ pc = "start" /\ isObj
            /\ Len(addedvars') = Len(addedvars) + 1
            /\ nprobvars' = nprobvars + 1]_vars
    /\ [](nprobvars = ndec + Len(addedvars))
    /\ [](Len(addedvars) = IF isObj /\ pc # "start" THEN 1 ELSE 0)
    /\ [](\A k \in 1..Len(addedvars) :
            /\ addedvars[k].lb = "-SCIPinfinity" /\ addedvars[k].ub = "SCIPinfinity"
            /\ addedvars[k].obj = 1
            /\ addedvars[k].vartype = "SCIP_VARTYPE_CONTINUOUS")

\* C17 witness: a constraint with bounds -5 and 4 and then the objective
\* have been compiled
C17_Witness ==
    /\ pc = "done"
    /\ isObj
    /\ Len(conss) = 2
    /\ conss[1].lhs = -5 /\ conss[1].rhs = 4 /\ conss[1].lin = <<>>
    /\ conss[2].lhs = 0 /\ conss[2].rhs = 0 /\ conss[2].lin # <<>>
    /\ conss[1].created /\ conss[2].created
    /\ Len(addedvars) = 1

\* C18: whenever the call has come to the evaluation or to the creation of
\* the constraint, the root exp[expno] is a node created by this call, and
\* no node was created after it.
C18_RootIsLastCreated ==
    pc \in {"validate", "emit"} =>
        (RootCreated /\ \A k \in DOMAIN exp : k <= expno)

\* the indices of the expressions a node has as children
ExpChildren(nd) == {nd.ch[m].j : m \in {n \in 1..Len(nd.ch) : nd.ch[n].t = "exp"}}
NumExpChildren(nd) == Cardinality({n \in 1..Len(nd.ch) : nd.ch[n].t = "exp"})

\* C19: every node refers only to nodes created before it in the same call:
\* each expression child of exp[k] is an entry that was created, with an
\* index from 0 to k - 1; a node made of two expressions has two different
\* children; and a step creates at most the one node exp[expno], leaving
\* the nodes created before as they were.
C19_NodesReferenceEarlier ==
    /\ [](\A k \in DOMAIN exp :
            /\ k >= 0 /\ k <= expno
            /\ \A j \in ExpChildren(exp[k]) : j >= 0 /\ j < k /\ j \in DOMAIN exp
            /\ NumExpChildren(exp[k]) <= 2
            /\ NumExpChildren(exp[k]) = 2 => Cardinality(ExpChildren(exp[k])) = 2)
    /\ [][(pc = "loop" /\ exp' # exp) =>
            /\ DOMAIN exp' = DOMAIN exp \cup {expno}
            /\ expno \notin DOMAIN exp
            /\ \A k \in DOMAIN exp : exp'[k] = exp[k]
            /\ \A j \in ExpChildren(exp'[expno]) : j = expno - 1 \/ j < expno - 1]_vars

\* C19 witness: the call has built a node out of two expressions, the
\* deferred one and the last one
C19_Witness ==
    /\ pc = "done"
    /\ \E k \in DOMAIN exp :
         /\ NumExpChildren(exp[k]) = 2
         /\ k - 1 \in ExpChildren(exp[k])
         /\ \E j \in ExpChildren(exp[k]) : j < k - 1

\* a function step whose operand is a variable or an expression
FcnStepOn(ops) == InLoop /\ state \in ops /\ args[1] \in {VAR, EXP}
\* a pending list is at its capacity when the step has something to save
SaveAtCapacity ==
    /\ args[2] = VAR
    /\ \/ Len(savexplst) >= MAX_DEPTH
       \/ Len(savvarlst) >= MAX_DEPTH
       \/ Len(savprolst) >= 2 * MAX_DEPTH

\* C20: a step of SQRT, EXPNT, LOG, ABS, SIN or COS whose operand is a
\* variable or an expression creates exactly one node, exp[expno], of that
\* function, leaves the nodes created before alone and goes on with the
\* result as its one operand; it fails only where it has an operand to save
\* and a pending list is at its capacity.  A step of SQUARE creates no node
\* and fails, with 'Operator not implemented yet' unless saving the operand
\* failed first.
C20_FunctionStepMakesNode ==
    /\ [][FcnStepOn(UnaryOps \ {SQUARE}) =>
            \/ /\ pc' = "loop" /\ err' = NoError
               /\ i' = i + 1
               /\ expno \notin DOMAIN exp
               /\ DOMAIN exp' = DOMAIN exp \cup {expno}
               /\ \A k \in DOMAIN exp : exp'[k] = exp[k]
               /\ exp'[expno].op = (IF state = SQRT THEN POW ELSE state)
               /\ Len(exp'[expno].ch) = 1
               /\ args' = <<EXP, EMPTY>>
            \/ /\ pc' = "error" /\ err' \in DepthMsgs \cup {MsgCrash}
               /\ exp' = exp
               /\ SaveAtCapacity]_vars
    /\ [][FcnStepOn({SQUARE}) =>
            /\ pc' = "error"
            /\ exp' = exp
            /\ \/ err' = MsgNotImplemented
               \/ err' \in DepthMsgs \cup {MsgCrash} /\ SaveAtCapacity]_vars

\* C20 witness: cos(abs(x0)) has been built, a function of a variable and
\* then a function of an expression
C20_Witness ==
    /\ pc = "done"
    /\ instr = <<VAR, 0, ABS, 0, COS, 0>>
    /\ DOMAIN exp = {0, 1}
    /\ exp[0] = ExprFun(ABS, VarRef(0))
    /\ exp[1] = ExprFun(COS, ExpRef(0))
    /\ err = NoError

\* C20 as stated: a step of any of SQUARE, SQRT, EXPNT, LOG, ABS, SIN and
\* COS whose operand is a variable or an expression creates one node and
\* raises no fatal error.
C20_EveryFunctionMakesNode ==
    [][FcnStepOn(UnaryOps) =>
         (err' = NoError /\ pc' = "loop" /\ DOMAIN exp' = DOMAIN exp \cup {expno})]_vars

\* a step of +, -, * or / that has its two operands, the second one in the
\* registers or waiting in the lists
FourOps == {ADD, SUB, MUL, DIV}
TwoOperandStep ==
    /\ InLoop
    /\ state \in FourOps
    /\ args[1] \in {NUM, VAR, EXP}
    /\ args[2] \in {NUM, VAR, EXP} \/ (args[2] = EMPTY /\ savprolst # <<>>)

\* C21: a step of ADD, SUB, MUL or DIV that has two operands, whatever pair
\* of kinds NUM, VAR, EXP they are, creates exactly one node, exp[expno],
\* and does not fail.
C21_EveryPairMakesNode ==
    [][TwoOperandStep =>
         /\ pc' = "loop" /\ err' = NoError
         /\ DOMAIN exp' = DOMAIN exp \cup {expno}
         /\ expno \notin DOMAIN exp]_vars

\* C22: the call leaves the instruction array of its caller as it was: no
\* step writes an element of instr.
C22_InstrUnchanged ==
    [][pc # "done" => instr' = instr]_vars

C24_ErrorsTellTheirPlace ==
    (pc = "error" /\ err # MsgCrash) =>
        {"nlno", "operator"} \subseteq MsgCarries(err)

\* C25: when the builder loop has run over a stream without an error (the
\* short cuts for a single NUM or VAR pair aside), the state it ends in is
\* the terminal state EXIT.
C25_EndsInExit ==
    (pc = "validate" /\ no_instr > 0) => state = EXIT

\* a step of - or / that finds one expression in the registers, an operand
\* waiting in the lists and 0 in the slot of the operator
PopsForSubDiv ==
    /\ InLoop
    /\ state \in {SUB, DIV}
    /\ args = <<EXP, EMPTY>>
    /\ savprolst # <<>>
    /\ At(instr, i) = 0
\* the value at point p of the operand that waits on top of the lists
WaitingValue(p) ==
    IF Last(savprolst) = VAR
    THEN EvalChild(VarRef(Last(savvarlst)), exp, p, varind)
    ELSE EvalExp(Last(savexplst), exp, p, varind)

\* C26: a SUB or DIV step that takes a waiting operand, a variable or an
\* expression, with 0 in the slot of the operator, does not fail, and the
\* node it creates has at every point the value of the waiting operand
\* minus (divided by) the value of the current expression exp[expno-1]: the
\* operand that came first in the stream is the left one.
C26_WaitingOperandIsLeft ==
    [][PopsForSubDiv =>
         /\ pc' = "loop" /\ err' = NoError
         /\ \A p \in Points :
              LET cur == EvalExp(expno - 1, exp, p, varind)
                  new == EvalExp(expno, exp', p, varind)
              IN  new = IF state = SUB THEN QSub(WaitingValue(p), cur)
                        ELSE QDiv(WaitingValue(p), cur)]_vars

\* C26 witness: abs(x0) / sqrt(x1): the first expression waited while the
\* second was built, and the division has made it the dividend
C26_Witness ==
    /\ pc = "done"
    /\ instr = <<VAR, 0, ABS, 0, VAR, 1, SQRT, 0, DIV, 0>>
    /\ DOMAIN exp = {0, 1, 2}
    /\ exp[2] = ExprProduct(<<InvOf(ExpRef(1)), ExpRef(0)>>, Q(1))
    /\ xval = <<3, 4>>
    /\ fval = Frac(3, 2)

\* an operator step that does not fail
OperatorStepDone(ops) == InLoop /\ state \in ops /\ pc' = "loop"
\* the step is going to combine a waiting expression with the current one
TakesWaitingExp ==
    /\ args[1] = EXP /\ args[2] = EMPTY
    /\ savprolst # <<>> /\ Last(savprolst) = EXP

\* C27: after every two operand or function step that does not fail the
\* registers are (EXP, EMPTY); a two operand step takes exactly the last
\* entry off the list of waiting expressions when it combines a waiting
\* expression with the current one, and leaves that list alone in every
\* other case.
C27_RegistersAfterStep ==
    /\ [][OperatorStepDone(BinaryOps \cup UnaryOps) => args' = <<EXP, EMPTY>>]_vars
    /\ [][OperatorStepDone(BinaryOps) =>
            IF TakesWaitingExp
            THEN /\ savexplst # <<>>
                 /\ savexplst' = SubSeq(savexplst, 1, Len(savexplst) - 1)
                 /\ NumExpChildren(exp'[expno]) = 2
            ELSE /\ savexplst' = savexplst
                 /\ NumExpChildren(exp'[expno]) <= 1]_vars

\* C27 witness: abs(x0) * abs(x1) has been built: the product took the one
\* waiting expression, the registers are (EXP, EMPTY) and nothing waits
C27_Witness ==
    /\ pc = "done"
    /\ instr = <<VAR, 0, ABS, 0, VAR, 1, ABS, 0, MUL, 0>>
    /\ exp[2] = ExprProduct(<<ExpRef(0), ExpRef(1)>>, Q(1))
    /\ args = <<EXP, EMPTY>>
    /\ savexplst = <<>>
    /\ savprolst = <<>>

\* the nodes that have exp[j] as a child
Parents(j) == {k \in DOMAIN exp : j \in ExpChildren(exp[k])}

\* C28: the waiting expressions are taken last in first out, whatever their
\* number: a step that combines a waiting expression with the current one
\* takes the entry on top of the list, makes it and the last node created
\* the two children of the new node, and removes that entry and its tag
\* only.  Each is used once: the waiting entries are different nodes that
\* no node has as a child yet, and no node is ever the child of two nodes.
C28_WaitingExpsLastInFirstOut ==
    /\ [][(OperatorStepDone(BinaryOps) /\ TakesWaitingExp) =>
            /\ ExpChildren(exp'[expno]) = {Last(savexplst), expno - 1}
            /\ Last(savexplst) < expno - 1
            /\ savexplst' = SubSeq(savexplst, 1, Len(savexplst) - 1)
            /\ savprolst' = SubSeq(savprolst, 1, Len(savprolst) - 1)
            /\ savvarlst' = savvarlst]_vars
    /\ [](pc = "loop" =>
            /\ \A m \in 1..Len(savexplst) :
                 /\ savexplst[m] \in DOMAIN exp
                 /\ Parents(savexplst[m]) = {}
                 /\ \A n \in 1..Len(savexplst) : m < n => savexplst[m] < savexplst[n]
            /\ \A j \in DOMAIN exp : Cardinality(Parents(j)) <= 1)

\* C28 witness: abs(x0) - (abs(x1) / sqrt(x0)): two expressions waited at
\* once; the division took the second, the subtraction then the first
C28_Witness ==
    /\ pc = "done"
    /\ instr = <<VAR, 0, ABS, 0, VAR, 1, ABS, 0, VAR, 0, SQRT, 0, DIV, 0, SUB, 0>>
    /\ exp[3] = ExprProduct(<<InvOf(ExpRef(2)), ExpRef(1)>>, Q(1))
    /\ exp[4] = ExprSum(<<ExpRef(0), ExpRef(3)>>, <<Q(1), Q(-1)>>, Q(0))
    /\ savexplst = <<>>
    /\ xval = <<1, 0>>
    /\ fval = Q(1)

\* C29: when the builder loop has run over a stream (the short cuts for a
\* single NUM or VAR pair aside), the index of the last node equals the
\* number of operators counted by the pre-scan less one, the index of the
\* last variable leaf used equals the number of VAR occurrences counted less
\* one, and there is one leaf for each VAR occurrence.
C29_CountsAgree ==
    (pc = "validate" /\ no_instr > 0) =>
        /\ expno = no_ops - 1
        /\ varcnt = no_var - 1
        /\ DOMAIN varind = 1..no_var

\* C30: a second call of addNonlinearCon on the same instr array, which finds
\* the marks the first call wrote into it, ends as the first call did: with
\* the same error or none, the same nodes, the same root and, where the root
\* was built, the same evaluation value.
C30_SecondCallSameOutcome ==
    (earlier # <<>> /\ pc \in {"done", "error"} /\ err # MsgCrash) =>
        /\ err = earlier[1].err
        /\ pc = earlier[1].ended
        /\ exp = earlier[1].tree
        /\ expno = earlier[1].root
        /\ RootCreated = earlier[1].created
        /\ (RootCreated /\ pc = "done" => fval = earlier[1].val)

\* C30 witness: x0 - abs(x1) was compiled twice on one array; the first call
\* left its mark in the slot of the subtraction and both calls built
\* x0 - abs(x1), which is -1 at (2, 3)
C30_Witness ==
    /\ pc = "done"
    /\ earlier # <<>>
    /\ instr = <<VAR, 0, VAR, 1, ABS, 0, SUB, 1>>
    /\ earlier[1].tree = exp
    /\ expno = 1
    /\ exp[1] = ExprSum(<<ExpRef(0), VarRef(0)>>, <<Q(-1), Q(1)>>, Q(0))
    /\ xval = <<2, 3>>
    /\ fval = Q(-1)
    /\ earlier[1].val = Q(-1)

\* C31: every index that a call uses to read a variable handle from vars is
\* the index of a decision variable: a call that got past the creation of
\* its variable leaves read only vars[0 .. ndec-1].
C31_HandlesReadInRange ==
    (pc # "start" /\ err # MsgAssert) =>
        \A j \in DOMAIN varind : varind[j] \in 0..(ndec - 1)

\* C32: in test mode the status returned in x[0] is 1 exactly when no
\* validation comparison, of a constraint or of the objective, exceeded the
\* feasibility tolerance: the status is 1 before the first comparison, a
\* comparison of two numbers that differ by more than the tolerance sets it
\* to 0 (and warns), one that passes leaves it as it is, and nothing sets it
\* back to 1.
C32_TestStatus ==
    /\ [](conss = <<>> => ts = 1)
    /\ []((xout # <<>> /\ xout[1] = "test") =>
            (xout[2] = ts /\ (xout[2] = 1 <=> ~warned)))
    /\ [][ts' # ts => (ts = 1 /\ ts' = 0)]_vars
    /\ [][(pc = "compare" /\ pc' = "done" /\ xval # NoPoint /\ Wanted \in given
             /\ IsQ(fval) /\ IsQ(conval')) =>
            /\ warned' = (warned \/ Mismatch(fval, conval'))
            /\ ts' = IF Mismatch(fval, conval') THEN 0 ELSE ts]_vars

\* C32 witness: test mode returned 0 for a problem of two constraints whose
\* first comparison failed and whose second comparison passed
C32_Witness ==
    /\ pc = "returned"
    /\ xout = <<"test", 0>>
    /\ Len(conss) = 2
    /\ xval # NoPoint
    /\ Wanted \in given
    /\ IsQ(fval)
    /\ conval = fval

\* C33: when the builder loop has run over a stream without an error (the
\* short cuts aside), no operand is left over: the lists of waiting
\* expressions and variables and the process list are empty and the second
\* register is EMPTY.
C33_NothingLeftOver ==
    (pc = "validate" /\ no_instr > 0) =>
        /\ savexplst = <<>>
        /\ savvarlst = <<>>
        /\ savprolst = <<>>
        /\ args[2] = EMPTY

\* C34: when the compilation of an objective ends in a fatal error, the
\* problem is as it was before the call: no variable and no constraint has
\* been added.
C34_FailedObjectiveAddsNothing ==
    (isObj /\ pc = "error" /\ err # MsgCrash) =>
        (addedvars = <<>> /\ nprobvars = ndec /\ conss = <<>>)

\* C35: a function step that finds a constant in the second register, behind
\* a variable or an expression, does not lose the constant: the step fails,
\* or the constant is still in a register after it.
C35_FunctionKeepsConstant ==
    [][(InLoop /\ state \in UnaryOps /\ args[1] \in {VAR, EXP} /\ args[2] = NUM) =>
          (pc' = "error" \/ args'[1] = NUM \/ args'[2] = NUM)]_vars

\* the opcodes the builder implements
SupportedOpcodes == {NUM, VAR} \cup BinaryOps \cup UnaryOps

\* C36: a stream that holds, in an opcode position, anything but NUM, VAR, a
\* two operand operator or a function does not get through the builder loop:
\* when the loop has ended without an error, every opcode position of the
\* stream holds a supported opcode.
C36_UnsupportedTokenFails ==
    (pc = "validate" /\ no_instr > 0) =>
        \A k \in OpPositions(instr) : At(instr, k) \in SupportedOpcodes

\* SCIP's infinity with the sign of an infinite bound
SameSignSentinel(b) == IF b.k = "inf" THEN SCIPinfinity(b.v) ELSE b

\* C37: the bounds a constraint is compiled with are those the caller
\* supplied, with an infinite bound replaced by SCIP's infinity of the same
\* sign (also where the sign is the opposite of the usual one: cl = +inf,
\* cu = -inf) and a finite bound unchanged.
C37_InfiniteBoundsKeepSign ==
    [][(pc = "done" /\ pc' = "start" /\ ~isObj') =>
          /\ lhs' = SameSignSentinel(Head(pending).lhs)
          /\ rhs' = SameSignSentinel(Head(pending).rhs)]_vars

\* C38: the number of point values and variable handles that the validation
\* reads, nvars, is the number of decision variables, also when the caller
\* added the objective bias variable or the quadratic objective variable
\* before the call.
C38_ValidatorReadsNdec ==
    (pc = "validate" /\ XvalPassed) => nvars = ndec

\* the parts of C39
\* the root handed to the evaluation and to the constraint is one of the
\* MAX(no_ops,1) entries allocated, and was created
RootInRange ==
    pc \in {"validate", "emit"} => (expno < MaxOf(no_ops, 1) /\ RootCreated)
\* an operator step writes its node into the entries allocated, and an
\* expression in the registers is the node created last
NodesInRange ==
    (InLoop /\ state \in BinaryOps \cup UnaryOps) =>
        /\ expno < MaxOf(no_ops, 1)
        /\ (EXP \in {args[1], args[2]} => expno - 1 \in DOMAIN exp)
\* a variable in the registers is one of the no_var leaves
LeavesInRange ==
    (InLoop /\ state \in BinaryOps \cup UnaryOps /\ VAR \in {args[1], args[2]}) =>
        varcnt \in 0..(no_var - 1)
\* the look-back of the VAR case stays inside the stream
LookBackInRange ==
    (InLoop /\ state = VAR /\ args[1] = VAR /\ args[2] # EMPTY) => i - 5 >= 0
\* the builder reads its opcodes at the positions the pre-scan counted
SameOpcodePositions ==
    (InLoop /\ state = READ) => i \in OpPositions(instr)

\* C39: for every stream, every access the builder makes to exp, expvars and
\* instr is in range and every node it reads was created, and the builder
\* reads opcodes at the positions at which the pre-scan does.
C39_AccessesInRange ==
    /\ RootInRange
    /\ NodesInRange
    /\ LeavesInRange
    /\ LookBackInRange
    /\ SameOpcodePositions

====
